---- MODULE Spec2Model ----
(***************************************************************************)
(* Expense tracker: the localStorage adapter (storageUtils), the Home page *)
(* that keeps an in-memory copy of the collection, and the expense form.   *)
(***************************************************************************)
EXTENDS Integers, Sequences, FiniteSets, TLC

(***************************************************************************)
(* Bounds of the model.                                                    *)
(***************************************************************************)
\* number of ids crypto.randomUUID() hands out in one behaviour
MaxUuid == 2
\* the clock runs from 1 to MaxNow
MaxNow == 2
\* number of expenses added through the form of the Home page in one behaviour
MaxAdds == 1

(***************************************************************************)
(* Program constants.                                                      *)
(***************************************************************************)
STORAGE_KEY == "expense-tracker-data"
\* another key of the same localStorage area, owned by someone else
OTHER_KEY == "other-app-data"
StorageKeys == {STORAGE_KEY, OTHER_KEY}

Categories == {"Food", "Transportation", "Entertainment", "Shopping", "Bills", "Other"}

(***************************************************************************)
(* Values.                                                                 *)
(***************************************************************************)
\* JavaScript null
NULL == [kind |-> "null"]

\* a JavaScript number (IEEE 754 binary64): NaN, or val + frac / 2^60, where
\* val is the whole part and frac the first 60 binary places as three limbs
\* of 20 binary digits, most significant first.  This holds every binary64
\* value from 2^-7 up exactly, and so every sum of such values.
Limb == 1048576
Whole == <<0, 0, 0>>
Num(n) == [nan |-> FALSE, val |-> n, frac |-> Whole]
NaN == [nan |-> TRUE, val |-> 0, frac |-> Whole]
isNaN(x) == x.nan
NumGt(x, n) == ~x.nan /\ (x.val > n \/ (x.val = n /\ x.frac # Whole))
NumLe(x, n) == ~x.nan /\ ~NumGt(x, n)

\* the number of significant binary digits of a binary64 value
Precision == 53

RECURSIVE BitLen(_)
BitLen(n) == IF n = 0 THEN 0 ELSE 1 + BitLen(n \div 2)

RECURSIVE Pow2(_)
Pow2(k) == IF k = 0 THEN 1 ELSE 2 * Pow2(k - 1)

\* carry every limb's overflow into the next higher limb and into val
Normalize(val, f) ==
  LET n3 == f[3]
      n2 == f[2] + (n3 \div Limb)
      n1 == f[1] + (n2 \div Limb)
  IN [nan |-> FALSE, val |-> val + (n1 \div Limb),
      frac |-> <<n1 % Limb, n2 % Limb, n3 % Limb>>]

\* the binary places before the first 1 of a fraction that is not zero
LeadingZeros(f) ==
  IF f[1] > 0 THEN 20 - BitLen(f[1])
  ELSE IF f[2] > 0 THEN 40 - BitLen(f[2])
  ELSE 60 - BitLen(f[3])

\* round an exact non-negative value to the nearest binary64 value, ties to
\* even: keep Precision significant digits, that is drop the last D places
RoundToDouble(val, f) ==
  LET D == IF val > 0 THEN 60 - (Precision - BitLen(val))
           ELSE 60 - (Precision + LeadingZeros(f))
      j == 3 - ((D - 1) \div 20)
      d == D - 20 * (3 - j)
      low == f[j] % Pow2(d)
      halfway == Pow2(d - 1)
      sticky == \E k \in (j + 1)..3 : f[k] > 0
      odd == IF d < 20 THEN (f[j] \div Pow2(d)) % 2 = 1
             ELSE IF j > 1 THEN f[j - 1] % 2 = 1
             ELSE val % 2 = 1
      up == low > halfway \/ (low = halfway /\ (sticky \/ odd))
      kept == [k \in 1..3 |-> IF k < j THEN f[k]
                                ELSE IF k = j THEN f[j] - low + (IF up THEN Pow2(d) ELSE 0)
                                ELSE 0]
  IN IF f = Whole \/ D <= 0 THEN [nan |-> FALSE, val |-> val, frac |-> f]
     ELSE Normalize(val, kept)

\* x + y in binary64: the exact sum, rounded (fractions only occur in
\* non-negative values)
NumAdd(x, y) ==
  IF x.nan \/ y.nan THEN NaN
  ELSE LET e == Normalize(x.val + y.val, [k \in 1..3 |-> x.frac[k] + y.frac[k]])
       IN RoundToDouble(e.val, e.frac)

\* x > y in binary64 (false when either is NaN)
NumGtNum(x, y) ==
  /\ ~x.nan /\ ~y.nan
  /\ \/ x.val > y.val
     \/ /\ x.val = y.val
        /\ \E i \in 1..3 : x.frac[i] > y.frac[i] /\ \A k \in 1..(i - 1) : x.frac[k] = y.frac[k]

\* a string of n copies of the character c ('a'.repeat(200))
Repeat(c, n) == [i \in 1..n |-> c]

\* what localStorage holds under a key: nothing, text that JSON.parse
\* rejects, or the JSON text of a value
NoItem == NULL
Garbage == [kind |-> "text", json |-> FALSE, val |-> "{oops"]
EmptyText == [kind |-> "text", json |-> FALSE, val |-> ""]
OtherText == [kind |-> "text", json |-> FALSE, val |-> "theme=dark"]

\* JSON.stringify / JSON.parse of an array of records of strings and finite
\* numbers: the text carries the value, and parsing it gives the value back
JSONstringify(v) == [kind |-> "text", json |-> TRUE, val |-> v]

JSONparseThrows(text) == ~text.json

JSONparse(text) == text.val

Ids(exps) == {exps[i].id : i \in DOMAIN exps}

\* the first index whose record has the id, 0 for Array.findIndex's -1
FindIndex(exps, id) ==
  IF \E i \in DOMAIN exps : exps[i].id = id
  THEN CHOOSE i \in DOMAIN exps : exps[i].id = id /\ \A j \in 1..(i - 1) : exps[j].id # id
  ELSE 0

\* Array.filter(exp => exp.id !== id)
RECURSIVE FilterNotId(_, _)
FilterNotId(exps, id) ==
  IF exps = <<>> THEN <<>>
  ELSE IF Head(exps).id # id
       THEN <<Head(exps)>> \o FilterNotId(Tail(exps), id)
       ELSE FilterNotId(Tail(exps), id)

\* object spread { ...base, ...updates }
Spread(base, updates) ==
  [f \in DOMAIN base \cup DOMAIN updates |->
     IF f \in DOMAIN updates THEN updates[f] ELSE base[f]]

(***************************************************************************)
(* storageUtils.  Each operation is an operator from the storage area, the *)
(* environment (is there a window, does setItem throw) and the arguments   *)
(* to the new storage area, the returned value and the setItem calls made. *)
(***************************************************************************)
\* getExpenses without its try/catch: a parse error leaves the function
tryGetExpensesNoCatch(ls, win) ==
  IF ~win THEN [ls |-> ls, ret |-> <<>>, raised |-> FALSE]
  ELSE LET data == ls[STORAGE_KEY] IN
       IF data = NoItem \/ data = EmptyText THEN [ls |-> ls, ret |-> <<>>, raised |-> FALSE]
       ELSE IF JSONparseThrows(data) THEN [ls |-> ls, ret |-> <<>>, raised |-> TRUE]
       ELSE [ls |-> ls, ret |-> JSONparse(data), raised |-> FALSE]

\* getExpenses with its outcome spelled out: the storage area it leaves, the
\* value it returns and whether an error leaves the function
tryGetExpenses(ls, win) ==
  IF ~win THEN [ls |-> ls, ret |-> <<>>, raised |-> FALSE]
  ELSE LET data == ls[STORAGE_KEY] IN
       IF data = NoItem \/ data = EmptyText THEN [ls |-> ls, ret |-> <<>>, raised |-> FALSE]
       ELSE IF JSONparseThrows(data) THEN [ls |-> ls, ret |-> <<>>, raised |-> FALSE]
       ELSE [ls |-> ls, ret |-> JSONparse(data), raised |-> FALSE]

getExpenses(ls, win) == tryGetExpenses(ls, win).ret

saveExpenses(ls, win, exps, fail) ==
  IF ~win THEN [ls |-> ls, calls |-> <<>>]
  ELSE LET text == JSONstringify(exps) IN
       [ls    |-> IF fail THEN ls ELSE [ls EXCEPT ![STORAGE_KEY] = text],
        calls |-> <<[key |-> STORAGE_KEY, value |-> text, threw |-> fail]>>]

\* crypto.randomUUID(): a value never returned before
randomUUID(count) == count + 1

\* addExpense taking the id from the clock (Date.now()) instead of randomUUID
addExpenseTimestampId(ls, win, expense, t, uuid, fail) ==
  LET exps == getExpenses(ls, win)
      newExpense == Spread(expense, [id |-> t, createdAt |-> t, updatedAt |-> t])
      saved == saveExpenses(ls, win, Append(exps, newExpense), fail)
  IN  [ls |-> saved.ls, ret |-> newExpense, calls |-> saved.calls]

\* addExpense with unshift in place of push
addExpenseUnshift(ls, win, expense, t, uuid, fail) ==
  LET exps == getExpenses(ls, win)
      newExpense == Spread(expense, [id |-> uuid, createdAt |-> t, updatedAt |-> t])
      saved == saveExpenses(ls, win, <<newExpense>> \o exps, fail)
  IN  [ls |-> saved.ls, ret |-> newExpense, calls |-> saved.calls]

addExpense(ls, win, expense, t, uuid, fail) ==
  LET exps == getExpenses(ls, win)
      newExpense == Spread(expense, [id |-> uuid, createdAt |-> t, updatedAt |-> t])
      saved == saveExpenses(ls, win, Append(exps, newExpense), fail)
  IN  [ls |-> saved.ls, ret |-> newExpense, calls |-> saved.calls]

\* updateExpense that removes the record and pushes the updated one
updateExpenseMoveToEnd(ls, win, id, updates, t, fail) ==
  LET exps == getExpenses(ls, win)
      index == FindIndex(exps, id)
  IN  IF index = 0 THEN [ls |-> ls, ret |-> NULL, calls |-> <<>>]
      ELSE LET updatedExpense == Spread(Spread(exps[index], updates), [updatedAt |-> t])
               saved == saveExpenses(ls, win, Append(FilterNotId(exps, id), updatedExpense), fail)
           IN  [ls |-> saved.ls, ret |-> updatedExpense, calls |-> saved.calls]

updateExpense(ls, win, id, updates, t, fail) ==
  LET exps == getExpenses(ls, win)
      index == FindIndex(exps, id)
  IN  IF index = 0 THEN [ls |-> ls, ret |-> NULL, calls |-> <<>>]
      ELSE LET updatedExpense == Spread(Spread(exps[index], updates), [updatedAt |-> t])
               saved == saveExpenses(ls, win, [exps EXCEPT ![index] = updatedExpense], fail)
           IN  [ls |-> saved.ls, ret |-> updatedExpense, calls |-> saved.calls]

\* deleteExpense without the early return for an id that is not there
deleteExpenseAlwaysSaves(ls, win, id, fail) ==
  LET exps == getExpenses(ls, win)
      filteredExpenses == FilterNotId(exps, id)
      saved == saveExpenses(ls, win, filteredExpenses, fail)
  IN  [ls |-> saved.ls, ret |-> Len(filteredExpenses) # Len(exps), calls |-> saved.calls]

deleteExpense(ls, win, id, fail) ==
  LET exps == getExpenses(ls, win)
      filteredExpenses == FilterNotId(exps, id)
  IN  IF Len(filteredExpenses) = Len(exps) THEN [ls |-> ls, ret |-> FALSE, calls |-> <<>>]
      ELSE LET saved == saveExpenses(ls, win, filteredExpenses, fail)
           IN  [ls |-> saved.ls, ret |-> TRUE, calls |-> saved.calls]

clearAllExpenses(ls, win, fail) ==
  LET saved == saveExpenses(ls, win, <<>>, fail)
  IN  [ls |-> saved.ls, ret |-> NULL, calls |-> saved.calls]

(***************************************************************************)
(* State.                                                                  *)
(***************************************************************************)
VARIABLES
  localStorage,    \* the browser's storage area: key -> text or NoItem
  hasWindow,       \* typeof window !== 'undefined'
  tzOffset,        \* the local time zone: hours ahead of UTC
  now,             \* the clock (new Date()), in days
  uuidCount,       \* how many ids crypto.randomUUID() has returned
  last,            \* the last operation: its name, arguments, result, setItem calls
  expenses,        \* Home: the in-memory list
  isModalOpen,     \* Home: the add/edit modal is open
  editingExpense,  \* Home: the expense being edited, or NULL
  isLoaded,        \* Home: the load effect has run
  trace,           \* the steps of the last form submission, in order
  dashboard,       \* which Dashboard the build has: "simple", "modal" or "hub"
  isExportModalOpen,  \* Dashboard: the export modal is open
  exportModal,     \* ExportModal: its state (format, filters, filename, isExporting)
  exportsPending,  \* ExportModal: the calls of handleExport that have not finished
  isExportHubOpen, \* Dashboard: the Export Hub is open
  exportHub,       \* ExportHub: its state
  hubTimers        \* ExportHub: the timers of handleExport that have not fired

homeVars == <<expenses, isModalOpen, editingExpense, isLoaded, trace>>
dashVars == <<dashboard, isExportModalOpen, exportModal, exportsPending,
              isExportHubOpen, exportHub, hubTimers>>
vars == <<localStorage, hasWindow, tzOffset, now, uuidCount, last,
          expenses, isModalOpen, editingExpense, isLoaded, trace,
          dashboard, isExportModalOpen, exportModal, exportsPending,
          isExportHubOpen, exportHub, hubTimers>>

NoOp == [op |-> "none", id |-> 0, arg |-> NULL, ret |-> NULL, calls |-> <<>>, raised |-> FALSE]

\* the persisted collection, as the program reads it
Persisted == getExpenses(localStorage, hasWindow)

(***************************************************************************)
(* Callers of storageUtils: any sequence of calls, with or without a       *)
(* window, on a storage area that starts without the key or with text that *)
(* is not JSON.                                                            *)
(***************************************************************************)
ExpenseInputs ==
  { [date |-> <<1>>, amount |-> Num(50), category |-> "Food", description |-> <<"a">>],
    [date |-> <<0>>, amount |-> Num(1000000), category |-> "Bills", description |-> <<"b", " ", "c">>] }

UpdateInputs ==
  { [date |-> <<0>>, amount |-> Num(75), category |-> "Other", description |-> <<"d">>],
    [amount |-> Num(75)] }

InitHome ==
  /\ expenses = <<>>
  /\ isModalOpen = FALSE
  /\ editingExpense = NULL
  /\ isLoaded = FALSE
  /\ trace = <<>>

\* ExportModal: the initial values of its useState hooks
InitExportModal ==
  [format |-> "csv", startDate |-> <<>>, endDate |-> <<>>, selectedCategories |-> Categories,
   filename |-> "expenses-export", isExporting |-> FALSE]

\* selectedProvider is null: no destination is selected
NoProvider == "null"

\* the ids of the two scheduled exports
ScheduleIds == {"1", "2"}

\* ExportHub: the initial values of its useState hooks
InitExportHub ==
  [activeTab |-> "export", selectedTemplate |-> "monthly-summary",
   selectedProvider |-> NoProvider, isProcessing |-> FALSE,
   showSuccessNotification |-> FALSE, emailAddress |-> "", shareLink |-> <<>>,
   showQRCode |-> FALSE, scheduledExports |-> [id \in ScheduleIds |-> TRUE]]

\* the dashboard as it is mounted: the modal and the hub are closed
InitDashboardState ==
  /\ isExportModalOpen = FALSE
  /\ exportModal = InitExportModal
  /\ exportsPending = <<>>
  /\ isExportHubOpen = FALSE
  /\ exportHub = InitExportHub
  /\ hubTimers = <<>>

\* the build whose Home page shows the dashboard with the export modal
InitDashboard ==
  /\ dashboard = "modal"
  /\ InitDashboardState

InitStore ==
  /\ localStorage \in { [k \in StorageKeys |-> IF k = STORAGE_KEY THEN t ELSE OtherText]
                         : t \in {NoItem, EmptyText, Garbage} }
  /\ hasWindow \in BOOLEAN
  /\ tzOffset = 0
  /\ now = 1
  /\ uuidCount = 0
  /\ last = NoOp
  /\ InitHome
  /\ InitDashboard

GetExpensesCall ==
  /\ LET r == tryGetExpenses(localStorage, hasWindow) IN
     /\ localStorage' = r.ls
     /\ last' = [op |-> "get", id |-> 0, arg |-> NULL, ret |-> r.ret, calls |-> <<>>,
                 raised |-> r.raised]
  /\ UNCHANGED <<hasWindow, tzOffset, dashVars, now, uuidCount>>
  /\ UNCHANGED homeVars

AddExpenseCall(expense, fail) ==
  /\ uuidCount < MaxUuid
  /\ LET r == addExpense(localStorage, hasWindow, expense, now, randomUUID(uuidCount), fail) IN
     /\ localStorage' = r.ls
     /\ last' = [op |-> "add", id |-> 0, arg |-> expense, ret |-> r.ret, calls |-> r.calls,
                 raised |-> FALSE]
  /\ uuidCount' = uuidCount + 1
  /\ UNCHANGED <<hasWindow, tzOffset, dashVars, now>>
  /\ UNCHANGED homeVars

UpdateExpenseCall(id, updates, fail) ==
  /\ LET r == updateExpense(localStorage, hasWindow, id, updates, now, fail) IN
     /\ localStorage' = r.ls
     /\ last' = [op |-> "update", id |-> id, arg |-> updates, ret |-> r.ret, calls |-> r.calls,
                 raised |-> FALSE]
  /\ UNCHANGED <<hasWindow, tzOffset, dashVars, now, uuidCount>>
  /\ UNCHANGED homeVars

DeleteExpenseCall(id, fail) ==
  /\ LET r == deleteExpense(localStorage, hasWindow, id, fail) IN
     /\ localStorage' = r.ls
     /\ last' = [op |-> "delete", id |-> id, arg |-> NULL, ret |-> r.ret, calls |-> r.calls,
                 raised |-> FALSE]
  /\ UNCHANGED <<hasWindow, tzOffset, dashVars, now, uuidCount>>
  /\ UNCHANGED homeVars

ClearAllExpensesCall(fail) ==
  /\ LET r == clearAllExpenses(localStorage, hasWindow, fail) IN
     /\ localStorage' = r.ls
     /\ last' = [op |-> "clear", id |-> 0, arg |-> NULL, ret |-> r.ret, calls |-> r.calls,
                 raised |-> FALSE]
  /\ UNCHANGED <<hasWindow, tzOffset, dashVars, now, uuidCount>>
  /\ UNCHANGED homeVars

\* time passes between two operations
Tick ==
  /\ now < MaxNow
  /\ now' = now + 1
  /\ last' = NoOp
  /\ trace' = <<>>
  /\ UNCHANGED <<localStorage, hasWindow, tzOffset, dashVars, uuidCount, expenses,
                 isModalOpen, editingExpense, isLoaded>>

NextStore ==
  \/ GetExpensesCall
  \/ \E expense \in ExpenseInputs, fail \in BOOLEAN : AddExpenseCall(expense, fail)
  \/ \E id \in 1..MaxUuid, updates \in UpdateInputs, fail \in BOOLEAN :
        UpdateExpenseCall(id, updates, fail)
  \/ \E id \in 1..MaxUuid, fail \in BOOLEAN : DeleteExpenseCall(id, fail)
  \/ \E fail \in BOOLEAN : ClearAllExpensesCall(fail)
  \/ Tick

SpecStore == InitStore /\ [][NextStore]_vars

(***************************************************************************)
(* The expense form (ExpenseForm) and its validation.                      *)
(***************************************************************************)
\* the largest amount and the longest description validation accepts
MaxAmount == 1000000
MaxDescriptionLength == 200

\* a date string yyyy-MM-dd is the one-element tuple of its day number, the
\* empty string the empty tuple; new Date(string) gives the day
ParseDate(date) == date[1]

\* amount strings validation rejects
InvalidAmountInputs == {"", "abc", "0", "-10", "1000001"}

\* parseFloat on the amount strings of the model: the nearest binary64 value
parseFloat(str) ==
  CASE str = "0" -> Num(0)
    [] str = "-10" -> Num(0 - 10)
    [] str = "0.01" -> [nan |-> FALSE, val |-> 0, frac |-> <<10485, 796917, 796918>>]
    [] str = "0.10" -> [nan |-> FALSE, val |-> 0, frac |-> <<104857, 629145, 629152>>]
    [] str = "0.20" -> [nan |-> FALSE, val |-> 0, frac |-> <<209715, 209715, 209728>>]
    [] str = "0.30" -> [nan |-> FALSE, val |-> 0, frac |-> <<314572, 838860, 838848>>]
    [] str = "50.00" -> Num(50)
    [] str = "99.99" -> [nan |-> FALSE, val |-> 99, frac |-> <<1038090, 251658, 245760>>]
    [] str = "1000000.01" -> [nan |-> FALSE, val |-> 1000000, frac |-> <<10485, 796928, 0>>]
    [] str = "1000000" -> Num(1000000)
    [] str = "1000001" -> Num(1000001)
    [] OTHER -> NaN

IsSpace(c) == c = " "

\* String.prototype.trim: drop the white space before the first and after
\* the last character that is not white space
trimStart(str) ==
  IF \A i \in DOMAIN str : IsSpace(str[i]) THEN <<>>
  ELSE LET k == CHOOSE i \in DOMAIN str :
                  ~IsSpace(str[i]) /\ \A j \in 1..(i - 1) : IsSpace(str[j])
       IN SubSeq(str, k, Len(str))

trimEnd(str) ==
  IF \A i \in DOMAIN str : IsSpace(str[i]) THEN <<>>
  ELSE LET k == CHOOSE i \in DOMAIN str :
                  ~IsSpace(str[i]) /\ \A j \in (i + 1)..Len(str) : IsSpace(str[j])
       IN SubSeq(str, 1, k)

trim(str) == trimEnd(trimStart(str))

\* no error for a field is the empty message
NoError == ""

\* a date rule that also rejects today
validateDateBeforeToday(date, t) ==
  IF date = <<>> THEN "Date is required"
  ELSE IF ParseDate(date) >= t THEN "Date cannot be in the future"
  ELSE NoError

\* the date rule on day t
validateDate(date, t) ==
  IF date = <<>> THEN "Date is required"
  ELSE IF ParseDate(date) > t THEN "Date cannot be in the future"
  ELSE NoError

\* an amount rule that rejects the largest amount and lets 0 pass
validateAmountExclusive(amount) ==
  IF amount = "" THEN "Amount is required"
  ELSE IF isNaN(parseFloat(amount)) \/ ~NumGt(parseFloat(amount), 0 - 1)
       THEN "Amount must be a positive number"
  ELSE IF NumGt(parseFloat(amount), MaxAmount - 1) THEN "Amount seems unreasonably large"
  ELSE NoError

\* the amount rule
validateAmount(amount) ==
  IF amount = "" THEN "Amount is required"
  ELSE IF isNaN(parseFloat(amount)) \/ ~NumGt(parseFloat(amount), 0)
       THEN "Amount must be a positive number"
  ELSE IF NumGt(parseFloat(amount), MaxAmount) THEN "Amount seems unreasonably large"
  ELSE NoError

\* the category rule
validateCategory(category) ==
  IF category = "" THEN "Category is required" ELSE NoError

\* a description rule that rejects the longest description and does not trim
validateDescriptionExclusive(description) ==
  IF description = <<>> THEN "Description is required"
  ELSE IF Len(description) >= MaxDescriptionLength
       THEN "Description must be less than 200 characters"
  ELSE NoError

\* the description rule
validateDescription(description) ==
  IF trim(description) = <<>> THEN "Description is required"
  ELSE IF Len(description) > MaxDescriptionLength
       THEN "Description must be less than 200 characters"
  ELSE NoError

\* validateExpenseForm(formData) at time t: field -> message
validateExpenseForm(formData, t) ==
  [date |-> validateDate(formData.date, t),
   amount |-> validateAmount(formData.amount),
   category |-> validateCategory(formData.category),
   description |-> validateDescription(formData.description)]

hasErrors(errors) == \E f \in DOMAIN errors : errors[f] # NoError

(***************************************************************************)
(* The Home page: its handlers as operators from the storage area and the  *)
(* page state to the new ones, with the steps taken, in order.             *)
(***************************************************************************)
\* the setItem calls of a storage operation, as steps of the trace
SetItemSteps(calls) == [i \in DOMAIN calls |-> "setItem"]

\* handleAddExpense updating the list before it calls the storage
handleAddExpenseOptimistic(ls, win, exps, editing, formData, t, uuid, fail) ==
  LET r == addExpense(ls, win,
                      [date |-> formData.date, amount |-> parseFloat(formData.amount),
                       category |-> formData.category, description |-> formData.description],
                      t, uuid, fail)
  IN  [ls |-> r.ls, expenses |-> Append(exps, r.ret), isModalOpen |-> FALSE,
       editingExpense |-> editing, op |-> "handleAdd", id |-> r.ret.id, calls |-> r.calls,
       errors |-> FALSE,
       trace |-> <<"setExpenses", "addExpense">> \o SetItemSteps(r.calls)
                 \o <<"addExpense:return", "setIsModalOpen">>]

handleAddExpense(ls, win, exps, editing, formData, t, uuid, fail) ==
  LET r == addExpense(ls, win,
                      [date |-> formData.date, amount |-> parseFloat(formData.amount),
                       category |-> formData.category, description |-> formData.description],
                      t, uuid, fail)
  IN  [ls |-> r.ls, expenses |-> Append(exps, r.ret), isModalOpen |-> FALSE,
       editingExpense |-> editing, op |-> "handleAdd", id |-> r.ret.id, calls |-> r.calls,
       errors |-> FALSE,
       trace |-> <<"addExpense">> \o SetItemSteps(r.calls)
                 \o <<"addExpense:return", "setExpenses", "setIsModalOpen">>]

\* prev.map(exp => (exp.id === updated.id ? updated : exp))
ReplaceById(exps, updated) ==
  [i \in DOMAIN exps |-> IF exps[i].id = updated.id THEN updated ELSE exps[i]]

\* handleEditExpense closing the modal without setEditingExpense(null)
handleEditExpenseKeepsEditing(ls, win, exps, editing, formData, t, uuid, fail) ==
  IF editing = NULL
  THEN [ls |-> ls, expenses |-> exps, isModalOpen |-> TRUE, editingExpense |-> editing,
        op |-> "handleEdit", id |-> 0, calls |-> <<>>, errors |-> FALSE, trace |-> <<>>]
  ELSE LET r == updateExpense(ls, win, editing.id,
                       [date |-> formData.date, amount |-> parseFloat(formData.amount),
                        category |-> formData.category, description |-> formData.description],
                       t, fail)
       IN  [ls |-> r.ls,
            expenses |-> IF r.ret # NULL THEN ReplaceById(exps, r.ret) ELSE exps,
            isModalOpen |-> FALSE, editingExpense |-> editing,
            op |-> "handleEdit", id |-> editing.id, calls |-> r.calls, errors |-> FALSE,
            trace |-> <<"updateExpense">> \o SetItemSteps(r.calls) \o <<"updateExpense:return">>
                      \o (IF r.ret # NULL THEN <<"setExpenses">> ELSE <<>>)
                      \o <<"setEditingExpense", "setIsModalOpen">>]

handleEditExpense(ls, win, exps, editing, formData, t, uuid, fail) ==
  IF editing = NULL
  THEN [ls |-> ls, expenses |-> exps, isModalOpen |-> TRUE, editingExpense |-> editing,
        op |-> "handleEdit", id |-> 0, calls |-> <<>>, errors |-> FALSE, trace |-> <<>>]
  ELSE LET r == updateExpense(ls, win, editing.id,
                       [date |-> formData.date, amount |-> parseFloat(formData.amount),
                        category |-> formData.category, description |-> formData.description],
                       t, fail)
       IN  [ls |-> r.ls,
            expenses |-> IF r.ret # NULL THEN ReplaceById(exps, r.ret) ELSE exps,
            isModalOpen |-> FALSE, editingExpense |-> NULL,
            op |-> "handleEdit", id |-> editing.id, calls |-> r.calls, errors |-> FALSE,
            trace |-> <<"updateExpense">> \o SetItemSteps(r.calls) \o <<"updateExpense:return">>
                      \o (IF r.ret # NULL THEN <<"setExpenses">> ELSE <<>>)
                      \o <<"setEditingExpense", "setIsModalOpen">>]

handleDeleteExpense(ls, win, exps, id, fail) ==
  LET r == deleteExpense(ls, win, id, fail)
  IN  [ls |-> r.ls, expenses |-> IF r.ret THEN FilterNotId(exps, id) ELSE exps,
       calls |-> r.calls]

\* the Delete button calling onDelete whatever the user answers
deleteOnClickNoConfirm(ls, win, exps, id, accepted, fail) ==
  LET r == handleDeleteExpense(ls, win, exps, id, fail)
  IN  [ls |-> r.ls, expenses |-> r.expenses, calls |-> r.calls, called |-> TRUE]

\* ExpenseList: the Delete button's onClick, with the user's answer to
\* confirm() and the onDelete the Home page passes to the list
deleteOnClick(ls, win, exps, id, accepted, fail) ==
  IF accepted
  THEN LET r == handleDeleteExpense(ls, win, exps, id, fail)
       IN  [ls |-> r.ls, expenses |-> r.expenses, calls |-> r.calls, called |-> TRUE]
  ELSE [ls |-> ls, expenses |-> exps, calls |-> <<>>, called |-> FALSE]

\* ExpenseForm.handleSubmit calling onSubmit whatever validation says
handleSubmitNoValidation(ls, win, exps, editing, formData, t, uuid, fail) ==
  LET r == IF editing # NULL
           THEN handleEditExpense(ls, win, exps, editing, formData, t, uuid, fail)
           ELSE handleAddExpense(ls, win, exps, editing, formData, t, uuid, fail)
  IN  [r EXCEPT !.trace = <<"validateExpenseForm", "onSubmit">> \o r.trace,
                !.errors = hasErrors(validateExpenseForm(formData, t))]

\* ExpenseForm.handleSubmit with the onSubmit the Home page passes to the form
handleSubmit(ls, win, exps, editing, formData, t, uuid, fail) ==
  LET validationErrors == validateExpenseForm(formData, t) IN
  IF hasErrors(validationErrors)
  THEN [ls |-> ls, expenses |-> exps, isModalOpen |-> TRUE, editingExpense |-> editing,
        op |-> "invalid", id |-> 0, calls |-> <<>>, errors |-> TRUE,
        trace |-> <<"validateExpenseForm", "setErrors">>]
  ELSE LET r == IF editing # NULL
                THEN handleEditExpense(ls, win, exps, editing, formData, t, uuid, fail)
                ELSE handleAddExpense(ls, win, exps, editing, formData, t, uuid, fail)
       IN  [r EXCEPT !.trace = <<"validateExpenseForm", "onSubmit">> \o r.trace]

(***************************************************************************)
(* What the user can submit: two forms that are valid (the second one only *)
(* from day 2 on), and the first one with one field made invalid.          *)
(***************************************************************************)
BaseForm == [date |-> <<1>>, amount |-> "50.00", category |-> "Food", description |-> <<"a">>]

BoundaryForm ==
  [date |-> <<2>>, amount |-> "1000000", category |-> "Other",
   description |-> Repeat("a", MaxDescriptionLength)]

DateInputs == {<<>>, <<MaxNow + 1>>}
CategoryInputs == {""}
DescriptionInputs == {<<>>, <<" ", " ", " ">>, Repeat("a", MaxDescriptionLength + 1)}

FormInputs ==
  {BaseForm, BoundaryForm}
    \cup {[BaseForm EXCEPT !.date = d] : d \in DateInputs}
    \cup {[BaseForm EXCEPT !.amount = a] : a \in InvalidAmountInputs}
    \cup {[BaseForm EXCEPT !.category = c] : c \in CategoryInputs}
    \cup {[BaseForm EXCEPT !.description = d] : d \in DescriptionInputs}

(***************************************************************************)
(* The Home page in a browser.                                             *)
(***************************************************************************)
Init ==
  /\ localStorage \in { [k \in StorageKeys |-> IF k = STORAGE_KEY THEN t ELSE OtherText]
                         : t \in {NoItem, Garbage} }
  /\ hasWindow = TRUE
  /\ tzOffset = 0
  /\ now = 1
  /\ uuidCount = 0
  /\ last = NoOp
  /\ InitHome
  /\ InitDashboard

\* the load effect: useEffect(..., [])
LoadEffect ==
  /\ ~isLoaded
  /\ expenses' = getExpenses(localStorage, hasWindow)
  /\ isLoaded' = TRUE
  /\ last' = NoOp
  /\ trace' = <<>>
  /\ UNCHANGED <<localStorage, hasWindow, tzOffset, dashVars, now, uuidCount,
                 isModalOpen, editingExpense>>

HandleOpenAddModal ==
  /\ isLoaded
  /\ editingExpense' = NULL
  /\ isModalOpen' = TRUE
  /\ last' = NoOp
  /\ trace' = <<>>
  /\ UNCHANGED <<localStorage, hasWindow, tzOffset, dashVars, now, uuidCount, expenses,
                 isLoaded>>

HandleOpenEditModal(expense) ==
  /\ isLoaded
  /\ editingExpense' = expense
  /\ isModalOpen' = TRUE
  /\ last' = NoOp
  /\ trace' = <<>>
  /\ UNCHANGED <<localStorage, hasWindow, tzOffset, dashVars, now, uuidCount, expenses,
                 isLoaded>>

HandleCloseModal ==
  /\ isLoaded
  /\ isModalOpen
  /\ isModalOpen' = FALSE
  /\ editingExpense' = NULL
  /\ last' = NoOp
  /\ trace' = <<>>
  /\ UNCHANGED <<localStorage, hasWindow, tzOffset, dashVars, now, uuidCount, expenses,
                 isLoaded>>

\* the form's submit button
HandleSubmit(formData, fail) ==
  /\ isLoaded
  /\ isModalOpen
  /\ editingExpense # NULL \/ uuidCount < MaxAdds
  /\ LET r == handleSubmit(localStorage, hasWindow, expenses, editingExpense, formData,
                           now, randomUUID(uuidCount), fail) IN
     /\ localStorage' = r.ls
     /\ expenses' = r.expenses
     /\ isModalOpen' = r.isModalOpen
     /\ editingExpense' = r.editingExpense
     /\ trace' = r.trace
     /\ last' = [op |-> r.op, id |-> r.id, arg |-> NULL, ret |-> r.errors, calls |-> r.calls,
                 raised |-> FALSE]
     /\ uuidCount' = IF r.op = "handleAdd" THEN uuidCount + 1 ELSE uuidCount
  /\ UNCHANGED <<hasWindow, tzOffset, dashVars, now, isLoaded>>

\* the Delete button of a listed expense and the user's answer to the
\* confirmation dialog
DeleteOnClick(id, accepted, fail) ==
  /\ isLoaded
  /\ LET r == deleteOnClick(localStorage, hasWindow, expenses, id, accepted, fail) IN
     /\ localStorage' = r.ls
     /\ expenses' = r.expenses
     /\ last' = [op |-> IF r.called THEN "handleDelete" ELSE "deleteDeclined", id |-> id,
                 arg |-> [accepted |-> accepted], ret |-> NULL, calls |-> r.calls,
                 raised |-> FALSE]
  /\ trace' = <<>>
  /\ UNCHANGED <<hasWindow, tzOffset, dashVars, now, uuidCount, isModalOpen,
                 editingExpense, isLoaded>>

\* the page is loaded again: the component state starts over
Reload ==
  /\ isLoaded
  /\ expenses' = <<>>
  /\ isModalOpen' = FALSE
  /\ editingExpense' = NULL
  /\ isLoaded' = FALSE
  /\ last' = NoOp
  /\ trace' = <<>>
  /\ UNCHANGED <<localStorage, hasWindow, tzOffset, dashVars, now, uuidCount>>

Next ==
  \/ LoadEffect
  \/ HandleOpenAddModal
  \/ \E i \in DOMAIN expenses : HandleOpenEditModal(expenses[i])
  \/ HandleCloseModal
  \* a write can fail only where one is made: on a form that passes validation
  \* and on a delete the user accepted
  \/ \E formData \in FormInputs :
       \E fail \in (IF formData \in {BaseForm, BoundaryForm} THEN BOOLEAN ELSE {FALSE}) :
          HandleSubmit(formData, fail)
  \/ \E i \in DOMAIN expenses, accepted \in BOOLEAN :
       \E fail \in (IF accepted THEN BOOLEAN ELSE {FALSE}) :
          DeleteOnClick(expenses[i].id, accepted, fail)
  \/ Reload
  \/ Tick

Spec == Init /\ [][Next]_vars

(***************************************************************************)
(* The spending summary of the dashboard (calculateSpendingSummary).  Time *)
(* is counted in hours since midnight UTC of day 0; a calendar month of    *)
(* the model has MonthLength days, month m being the days                  *)
(* m * MonthLength .. (m + 1) * MonthLength - 1.                           *)
(***************************************************************************)
\* the days of a month, the largest time-zone offset, the longest list
MonthLength == 3
MaxTz == 1
MaxLen == 3

HoursPerDay == 24
TzOffsets == (0 - MaxTz)..MaxTz

\* Object.keys(categoryBreakdown): the keys in the order they were written
CategoryOrder == <<"Food", "Transportation", "Entertainment", "Shopping", "Bills", "Other">>

\* new Date('yyyy-MM-dd'): a date-only string is midnight UTC of that day
NewDate(date) == ParseDate(date) * HoursPerDay

\* date-fns startOfMonth and endOfMonth of the local day t, in the zone tz
\* hours ahead of UTC: local midnight of the first day of the month, and the
\* last instant (here the last hour) of its last day
startOfMonth(t, tz) == (t \div MonthLength) * MonthLength * HoursPerDay - tz
endOfMonth(t, tz) == ((t \div MonthLength) + 1) * MonthLength * HoursPerDay - tz - 1

isWithinInterval(d, start, end) == d >= start /\ d <= end

\* expenses.reduce((sum, expense) => sum + expense.amount, sum)
RECURSIVE ReduceAmounts(_, _)
ReduceAmounts(exps, sum) ==
  IF exps = <<>> THEN sum
  ELSE ReduceAmounts(Tail(exps), NumAdd(sum, Head(exps).amount))

\* a breakdown loop that overwrites the bucket
RECURSIVE AccumulateOverwrite(_, _)
AccumulateOverwrite(exps, breakdown) ==
  IF exps = <<>> THEN breakdown
  ELSE AccumulateOverwrite(Tail(exps),
         [breakdown EXCEPT ![Head(exps).category] = Head(exps).amount])

\* expenses.forEach(expense => categoryBreakdown[expense.category] += expense.amount)
RECURSIVE Accumulate(_, _)
Accumulate(exps, breakdown) ==
  IF exps = <<>> THEN breakdown
  ELSE Accumulate(Tail(exps),
         [breakdown EXCEPT ![Head(exps).category] = NumAdd(@, Head(exps).amount)])

\* a scan that also replaces the running maximum by an equal bucket
RECURSIVE TopScanLastWins(_, _, _, _)
TopScanLastWins(breakdown, i, topCategory, maxAmount) ==
  IF i > Len(CategoryOrder) THEN topCategory
  ELSE LET category == CategoryOrder[i]
       IN IF ~NumGtNum(maxAmount, breakdown[category]) /\ NumGt(breakdown[category], 0)
          THEN TopScanLastWins(breakdown, i + 1,
                 [category |-> category, amount |-> breakdown[category]], breakdown[category])
          ELSE TopScanLastWins(breakdown, i + 1, topCategory, maxAmount)

\* Object.keys(categoryBreakdown).forEach(...): from key i on, with the
\* running topCategory and maxAmount
RECURSIVE TopScan(_, _, _, _)
TopScan(breakdown, i, topCategory, maxAmount) ==
  IF i > Len(CategoryOrder) THEN topCategory
  ELSE LET category == CategoryOrder[i]
       IN IF NumGtNum(breakdown[category], maxAmount)
          THEN TopScan(breakdown, i + 1,
                 [category |-> category, amount |-> breakdown[category]], breakdown[category])
          ELSE TopScan(breakdown, i + 1, topCategory, maxAmount)

\* calculateSpendingSummary(expenses) on local day t in the zone tz
calculateSpendingSummary(exps, t, tz) ==
  LET monthStart == startOfMonth(t, tz)
      monthEnd == endOfMonth(t, tz)
      categoryBreakdown == Accumulate(exps, [c \in Categories |-> Num(0)])
  IN [totalSpending |-> ReduceAmounts(exps, Num(0)),
      monthlySpending |->
        ReduceAmounts(SelectSeq(exps, LAMBDA expense :
            isWithinInterval(NewDate(expense.date), monthStart, monthEnd)), Num(0)),
      categoryBreakdown |-> categoryBreakdown,
      topCategory |-> TopScan(categoryBreakdown, 1, NULL, Num(0))]

(***************************************************************************)
(* The dashboard: it is handed a list of expenses and computes the summary *)
(* on a day of month 1, in any time zone.                                  *)
(***************************************************************************)
FirstDay == MonthLength
LastDay == 2 * MonthLength - 1

\* expenses on the first, a middle and the last day of the current month
\* and on the days next to it; amounts that are whole, zero, or fractions
CalcInputs ==
  { [date |-> <<FirstDay>>, amount |-> parseFloat("0.10"), category |-> "Food", description |-> <<"a">>],
    [date |-> <<LastDay>>, amount |-> parseFloat("0.20"), category |-> "Bills", description |-> <<"a">>],
    [date |-> <<FirstDay + 1>>, amount |-> parseFloat("0.30"), category |-> "Bills", description |-> <<"a">>],
    [date |-> <<FirstDay - 1>>, amount |-> Num(50), category |-> "Transportation", description |-> <<"a">>],
    [date |-> <<LastDay + 1>>, amount |-> Num(50), category |-> "Food", description |-> <<"a">>],
    [date |-> <<LastDay>>, amount |-> Num(0), category |-> "Shopping", description |-> <<"a">>] }

InitCalc ==
  /\ localStorage = [k \in StorageKeys |-> IF k = STORAGE_KEY THEN NoItem ELSE OtherText]
  /\ hasWindow = TRUE
  /\ tzOffset \in TzOffsets
  /\ now \in {FirstDay, LastDay}
  /\ uuidCount = 0
  /\ last = NoOp
  /\ InitHome
  /\ InitDashboard

\* the dashboard's expenses prop grows by one stored expense
ReceiveExpense(expense) ==
  /\ Len(expenses) < MaxLen
  /\ expenses' = Append(expenses,
       Spread(expense, [id |-> Len(expenses) + 1, createdAt |-> 0, updatedAt |-> 0]))
  /\ last' = NoOp
  /\ UNCHANGED <<localStorage, hasWindow, tzOffset, dashVars, now, uuidCount,
                 isModalOpen, editingExpense, isLoaded, trace>>

CalculateSpendingSummaryCall ==
  /\ last' = [op |-> "calculateSpendingSummary", id |-> 0, arg |-> expenses,
              ret |-> calculateSpendingSummary(expenses, now, tzOffset),
              calls |-> <<>>, raised |-> FALSE]
  /\ UNCHANGED <<localStorage, hasWindow, tzOffset, dashVars, now, uuidCount>>
  /\ UNCHANGED homeVars

NextCalc ==
  \/ \E expense \in CalcInputs : ReceiveExpense(expense)
  \/ CalculateSpendingSummaryCall

SpecCalc == InitCalc /\ [][NextCalc]_vars

(***************************************************************************)
(* The form's validation on its own: any form data, on any day.            *)
(***************************************************************************)
\* date strings: none, and every day up to the day after the last one
ValidateDates == {<<>>} \cup {<<d>> : d \in 0..(MaxNow + 1)}

\* amount strings: none, not a number, zero, negative, the smallest and
\* ordinary amounts, the largest amount and just above it
ValidateAmounts ==
  InvalidAmountInputs \cup {"0.01", "50.00", "99.99", "1000000", "1000000.01"}

\* descriptions: none, blank, short, padded, of the largest length, longer
ValidateDescriptions ==
  { <<>>, <<" ", " ", " ">>, <<"a">>, <<" ", "a", " ">>,
    Repeat("a", MaxDescriptionLength), Repeat("a", MaxDescriptionLength + 1),
    Repeat(" ", MaxDescriptionLength + 1) }

\* every date with every amount, and every category with every description
ValidateInputs ==
  {[BaseForm EXCEPT !.date = d, !.amount = a] : d \in ValidateDates, a \in ValidateAmounts}
    \cup {[BaseForm EXCEPT !.category = c, !.description = x] :
             c \in {"", "Food"}, x \in ValidateDescriptions}

InitValidate ==
  /\ localStorage = [k \in StorageKeys |-> IF k = STORAGE_KEY THEN NoItem ELSE OtherText]
  /\ hasWindow = TRUE
  /\ tzOffset = 0
  /\ now = 1
  /\ uuidCount = 0
  /\ last = NoOp
  /\ InitHome
  /\ InitDashboard

ValidateExpenseFormCall(formData) ==
  /\ last' = [op |-> "validateExpenseForm", id |-> 0, arg |-> formData,
              ret |-> validateExpenseForm(formData, now), calls |-> <<>>, raised |-> FALSE]
  /\ UNCHANGED <<localStorage, hasWindow, tzOffset, dashVars, now, uuidCount>>
  /\ UNCHANGED homeVars

NextValidate ==
  \/ \E formData \in ValidateInputs : ValidateExpenseFormCall(formData)
  \/ Tick

SpecValidate == InitValidate /\ [][NextValidate]_vars

(***************************************************************************)
(* Text.  A text is a tuple of characters; the exports build their files   *)
(* from the texts of the fields.                                           *)
(***************************************************************************)
\* the longest description and the longest list of the export model
MaxDescLen == 2
MaxExported == 2

Quote == "\""
Comma == ","
LF == "\n"

DigitChars == <<"0", "1", "2", "3", "4", "5", "6", "7", "8", "9">>

\* the decimal digits of a natural number
RECURSIVE IntChars(_)
IntChars(n) ==
  IF n < 10 THEN <<DigitChars[n + 1]>>
  ELSE IntChars(n \div 10) \o <<DigitChars[(n % 10) + 1]>>

TwoDigits(n) == <<DigitChars[(n \div 10) + 1], DigitChars[(n % 10) + 1]>>

\* the hundredths nearest to a fraction (a tie goes up): frac * 100, rounded
Hundredths(f) ==
  LET h == Normalize(0, [k \in 1..3 |-> f[k] * 100])
  IN h.val + (IF h.frac[1] >= Limb \div 2 THEN 1 ELSE 0)

\* Number.prototype.toFixed(2) of an amount that is not negative
toFixed2(x) ==
  IF x.nan THEN <<"N", "a", "N">>
  ELSE LET c == Hundredths(x.frac)
       IN IntChars(x.val + (c \div 100)) \o <<".">> \o TwoDigits(c % 100)

\* Number.prototype.toString of an amount that is not negative and is the
\* binary64 value nearest to a number of hundredths: the shortest decimal
\* that reads back as the same value has at most two decimals
toString(x) ==
  IF x.nan THEN <<"N", "a", "N">>
  ELSE LET c == Hundredths(x.frac)
       IN IF c % 100 = 0 THEN IntChars(x.val + (c \div 100))
          ELSE IF c % 10 = 0 THEN IntChars(x.val) \o <<".", DigitChars[(c \div 10) + 1]>>
          ELSE IntChars(x.val) \o <<".">> \o TwoDigits(c)

\* the calendar of the model: day n is day (n % MonthLength) + 1 of month
\* (n \div MonthLength) + 1 of the year 2020
DayOfMonth(day) == (day % MonthLength) + 1
MonthOfYear(day) == (day \div MonthLength) + 1

\* the date string yyyy-MM-dd itself, as the form wrote it
DateChars(date) ==
  <<"2", "0", "2", "0", "-">> \o TwoDigits(MonthOfYear(ParseDate(date)))
     \o <<"-">> \o TwoDigits(DayOfMonth(ParseDate(date)))

\* date-fns format(new Date(date), 'dd/MM/yyyy'): the local day of the
\* instant, in the zone tz hours ahead of UTC
formatDate(date, tz) ==
  LET day == (NewDate(date) + tz) \div HoursPerDay
  IN TwoDigits(DayOfMonth(day)) \o <<"/">> \o TwoDigits(MonthOfYear(day))
       \o <<"/", "2", "0", "2", "0">>

\* the characters of a category
CategoryChars(category) ==
  CASE category = "Food" -> <<"F", "o", "o", "d">>
    [] category = "Transportation" ->
         <<"T", "r", "a", "n", "s", "p", "o", "r", "t", "a", "t", "i", "o", "n">>
    [] category = "Entertainment" ->
         <<"E", "n", "t", "e", "r", "t", "a", "i", "n", "m", "e", "n", "t">>
    [] category = "Shopping" -> <<"S", "h", "o", "p", "p", "i", "n", "g">>
    [] category = "Bills" -> <<"B", "i", "l", "l", "s">>
    [] category = "Other" -> <<"O", "t", "h", "e", "r">>

\* Array.prototype.join on texts
RECURSIVE Join(_, _)
Join(texts, sep) ==
  IF texts = <<>> THEN <<>>
  ELSE IF Len(texts) = 1 THEN texts[1]
  ELSE texts[1] \o sep \o Join(Tail(texts), sep)

\* a description field that is quoted but whose quotes are not doubled
EscapeNothing(description) == <<Quote>> \o description \o <<Quote>>

\* `"${description.replace(/"/g, '""')}"`
Escape(description) ==
  <<Quote>>
    \o Join([i \in DOMAIN description |->
               IF description[i] = Quote THEN <<Quote, Quote>> ELSE <<description[i]>>], <<>>)
    \o <<Quote>>

(***************************************************************************)
(* The three CSV exports and the JSON export.                              *)
(***************************************************************************)
DateWord == <<"D", "a", "t", "e">>
CategoryWord == <<"C", "a", "t", "e", "g", "o", "r", "y">>
AmountWord == <<"A", "m", "o", "u", "n", "t">>
AmountGBPWord == <<"A", "m", "o", "u", "n", "t", " ", "(", "G", "B", "P", ")">>
DescriptionWord == <<"D", "e", "s", "c", "r", "i", "p", "t", "i", "o", "n">>

\* exportToCSV(expenses) in the zone tz (the header's Export CSV button): the
\* text of the file, or NULL when it alerts and writes nothing
exportToCSV(exps, tz) ==
  IF exps = <<>> THEN NULL
  ELSE LET headers == <<DateWord, CategoryWord, AmountGBPWord, DescriptionWord>>
           rows == [i \in DOMAIN exps |->
                      Join(<<formatDate(exps[i].date, tz), CategoryChars(exps[i].category),
                             toFixed2(exps[i].amount), Escape(exps[i].description)>>, <<Comma>>)]
       IN Join(<<Join(headers, <<Comma>>)>> \o rows, <<LF>>)

\* Dashboard.handleExportCSV (the simple dashboard): the text of the file
handleExportCSV(exps) ==
  LET headers == <<DateWord, CategoryWord, AmountWord, DescriptionWord>>
      rows == [i \in DOMAIN exps |->
                 <<DateChars(exps[i].date), CategoryChars(exps[i].category),
                   toString(exps[i].amount), Escape(exps[i].description)>>]
  IN Join(<<Join(headers, <<Comma>>)>> \o [i \in DOMAIN rows |-> Join(rows[i], <<Comma>>)],
          <<LF>>)

\* ExportModal.generateCSV(data)
generateCSV(data) ==
  LET headers == <<DateWord, CategoryWord, AmountWord, DescriptionWord>>
      rows == [i \in DOMAIN data |->
                 <<DateChars(data[i].date), CategoryChars(data[i].category),
                   toString(data[i].amount), Escape(data[i].description)>>]
  IN Join(<<Join(headers, <<Comma>>)>> \o [i \in DOMAIN rows |-> Join(rows[i], <<Comma>>)],
          <<LF>>)

\* ExportModal.filteredExpenses: an empty bound is no bound
filteredExpenses(exps, startDate, endDate, selectedCategories) ==
  SelectSeq(exps, LAMBDA expense :
    /\ startDate = <<>> \/ NewDate(expense.date) >= NewDate(startDate)
    /\ endDate = <<>> \/ NewDate(expense.date) <= NewDate(endDate)
    /\ expense.category \in selectedCategories)

\* ExportModal.exportSummary
exportSummary(filtered, startDate, endDate) ==
  [count |-> Len(filtered),
   total |-> ReduceAmounts(filtered, Num(0)),
   dateRange |-> IF startDate # <<>> /\ endDate # <<>> THEN <<startDate, "to", endDate>>
                 ELSE IF startDate # <<>> THEN <<"From", startDate>>
                 ELSE IF endDate # <<>> THEN <<"Until", endDate>>
                 ELSE <<"All dates">>]

\* a JSON export that writes the stored records as they are
generateJSONWholeRecords(data, summary, t) ==
  JSONstringify([exportDate |-> t, summary |-> summary, expenses |-> data])

\* ExportModal.generateJSON(data), with the summary of the same render, at
\* time t
generateJSON(data, summary, t) ==
  JSONstringify(
    [exportDate |-> t,
     summary |-> summary,
     expenses |-> [i \in DOMAIN data |->
                     [date |-> data[i].date, category |-> data[i].category,
                      amount |-> data[i].amount, description |-> data[i].description]]])

(***************************************************************************)
(* The pages that export: they are handed a list of expenses, at most one  *)
(* of them with a description made of any characters, and export it.       *)
(***************************************************************************)
DescriptionChars == {"a", Quote, Comma, LF}

RECURSIVE TextsUpTo(_)
TextsUpTo(n) ==
  IF n = 0 THEN {<<>>}
  ELSE TextsUpTo(n - 1)
         \cup {Append(s, c) : s \in {t \in TextsUpTo(n - 1) : Len(t) = n - 1},
                              c \in DescriptionChars}

\* stored expenses with a plain description
PlainInputs ==
  { [date |-> <<1>>, amount |-> Num(50), category |-> "Food", description |-> <<"a">>],
    [date |-> <<MonthLength>>, amount |-> parseFloat("0.10"), category |-> "Bills",
     description |-> <<"b", " ", "c">>] }

\* a stored expense with any description
ProbeInputs ==
  { [date |-> <<2>>, amount |-> parseFloat("99.99"), category |-> "Other", description |-> d] :
      d \in TextsUpTo(MaxDescLen) }

IsProbe(expense) == expense.category = "Other"

\* the zones of the export model: the farthest west and the farthest east
ExportZones == {0 - MaxTz, MaxTz}

InitExport ==
  /\ localStorage = [k \in StorageKeys |-> IF k = STORAGE_KEY THEN NoItem ELSE OtherText]
  /\ hasWindow = TRUE
  /\ tzOffset \in ExportZones
  /\ now = 1
  /\ uuidCount = 0
  /\ last = NoOp
  /\ InitHome
  /\ InitDashboard

\* the expenses prop grows by one stored expense
ReceiveRecord(expense) ==
  /\ Len(expenses) < MaxExported
  /\ IsProbe(expense) => \A i \in DOMAIN expenses : ~IsProbe(expenses[i])
  /\ expenses' = Append(expenses,
       Spread(expense, [id |-> Len(expenses) + 1, createdAt |-> 0, updatedAt |-> 0]))
  /\ last' = NoOp
  /\ UNCHANGED <<localStorage, hasWindow, tzOffset, dashVars, now, uuidCount,
                 isModalOpen, editingExpense, isLoaded, trace>>

\* Home.handleExport: the header's Export CSV button; it is disabled on an
\* empty list
HandleExport ==
  /\ expenses # <<>>
  /\ last' = [op |-> "exportToCSV", id |-> 0, arg |-> expenses,
              ret |-> exportToCSV(expenses, tzOffset), calls |-> <<>>, raised |-> FALSE]
  /\ UNCHANGED <<localStorage, hasWindow, tzOffset, dashVars, now, uuidCount>>
  /\ UNCHANGED homeVars

\* the simple dashboard's Export button; it is disabled on an empty list
HandleExportCSV ==
  /\ expenses # <<>>
  /\ last' = [op |-> "handleExportCSV", id |-> 0, arg |-> expenses,
              ret |-> handleExportCSV(expenses), calls |-> <<>>, raised |-> FALSE]
  /\ UNCHANGED <<localStorage, hasWindow, tzOffset, dashVars, now, uuidCount>>
  /\ UNCHANGED homeVars

\* ExportModal.handleExport with the format and the filters of the modal;
\* the Export button is disabled when the filtered list is empty
ModalHandleExport(format, startDate, endDate, selectedCategories) ==
  LET data == filteredExpenses(expenses, startDate, endDate, selectedCategories)
  IN /\ data # <<>>
     /\ last' = [op |-> format, id |-> 0, arg |-> data,
                 ret |-> IF format = "csv" THEN generateCSV(data)
                         ELSE generateJSON(data, exportSummary(data, startDate, endDate), now),
                 calls |-> <<>>, raised |-> FALSE]
     /\ UNCHANGED <<localStorage, hasWindow, tzOffset, dashVars, now, uuidCount>>
     /\ UNCHANGED homeVars

\* the filters the user sets: no bound or a day, and all categories or all
\* but one
FilterDates == {<<>>, <<2>>}
FilterCategories == {Categories, Categories \ {"Food"}}

NextExport ==
  \/ \E expense \in PlainInputs \cup ProbeInputs : ReceiveRecord(expense)
  \/ HandleExport
  \/ HandleExportCSV
  \/ \E format \in {"csv", "json"}, startDate \in FilterDates, endDate \in FilterDates,
        selectedCategories \in FilterCategories :
        ModalHandleExport(format, startDate, endDate, selectedCategories)

SpecExport == InitExport /\ [][NextExport]_vars

(***************************************************************************)
(* The list view (ExpenseList): its filters and its order.                 *)
(***************************************************************************)
\* String.prototype.toLowerCase on the letters of the model
LowerChar(c) ==
  CASE c = "A" -> "a"
    [] c = "B" -> "b"
    [] c = "C" -> "c"
    [] OTHER -> c

toLowerCase(str) == [i \in DOMAIN str |-> LowerChar(str[i])]

\* String.prototype.includes
includes(str, search) ==
  \E k \in 0..(Len(str) - Len(search)) : SubSeq(str, k + 1, k + Len(search)) = search

\* ExpenseList.filteredExpenses
listFilteredExpenses(exps, searchQuery, categoryFilter, startDate, endDate) ==
  SelectSeq(exps, LAMBDA expense :
    LET matchesSearch == includes(toLowerCase(expense.description), toLowerCase(searchQuery))
        matchesCategory == categoryFilter = "All" \/ expense.category = categoryFilter
        expenseDate == NewDate(expense.date)
        matchesStartDate == startDate = <<>> \/ expenseDate >= NewDate(startDate)
        matchesEndDate == endDate = <<>> \/ expenseDate <= NewDate(endDate)
    IN matchesSearch /\ matchesCategory /\ matchesStartDate /\ matchesEndDate)

\* a sort that puts the oldest first
RECURSIVE sortByDateOldestFirst(_)
sortByDateOldestFirst(exps) ==
  IF exps = <<>> THEN <<>>
  ELSE LET sorted == sortByDateOldestFirst(SubSeq(exps, 1, Len(exps) - 1))
           e == exps[Len(exps)]
           k == Cardinality({i \in DOMAIN sorted : NewDate(sorted[i].date) <= NewDate(e.date)})
       IN SubSeq(sorted, 1, k) \o <<e>> \o SubSeq(sorted, k + 1, Len(sorted))

\* [...exps].sort((a, b) => new Date(b.date).getTime() - new Date(a.date).getTime()):
\* Array.prototype.sort is stable, so expenses of the same date keep their order
RECURSIVE sortByDate(_)
sortByDate(exps) ==
  IF exps = <<>> THEN <<>>
  ELSE LET sorted == sortByDate(SubSeq(exps, 1, Len(exps) - 1))
           e == exps[Len(exps)]
           k == Cardinality({i \in DOMAIN sorted : NewDate(sorted[i].date) >= NewDate(e.date)})
       IN SubSeq(sorted, 1, k) \o <<e>> \o SubSeq(sorted, k + 1, Len(sorted))

\* ExpenseList.sortedExpenses: what the list view shows
sortedExpenses(exps, searchQuery, categoryFilter, startDate, endDate) ==
  sortByDate(listFilteredExpenses(exps, searchQuery, categoryFilter, startDate, endDate))

\* the list view is handed a list of expenses and shows it under any filters
ListInputs ==
  { [date |-> <<1>>, amount |-> Num(50), category |-> "Food", description |-> <<"C", "a", "b">>],
    [date |-> <<3>>, amount |-> Num(50), category |-> "Bills", description |-> <<"a", "b">>],
    [date |-> <<2>>, amount |-> Num(50), category |-> "Food", description |-> <<"x">>],
    [date |-> <<3>>, amount |-> Num(50), category |-> "Food", description |-> <<"B", "a">>] }

SearchInputs == {<<>>, <<"A", "B">>, <<"b", "a">>}
CategoryFilterInputs == {"All", "Food", "Bills"}
DateFilterInputs == {<<>>, <<2>>}

InitList ==
  /\ localStorage = [k \in StorageKeys |-> IF k = STORAGE_KEY THEN NoItem ELSE OtherText]
  /\ hasWindow = TRUE
  /\ tzOffset = 0
  /\ now = 1
  /\ uuidCount = 0
  /\ last = NoOp
  /\ InitHome
  /\ InitDashboard

\* the expenses prop grows by one stored expense
ReceiveListed(expense) ==
  /\ Len(expenses) < MaxLen
  /\ expenses' = Append(expenses,
       Spread(expense, [id |-> Len(expenses) + 1, createdAt |-> 0, updatedAt |-> 0]))
  /\ last' = NoOp
  /\ UNCHANGED <<localStorage, hasWindow, tzOffset, dashVars, now, uuidCount,
                 isModalOpen, editingExpense, isLoaded, trace>>

\* ExpenseList rendered with the filters the user has set
RenderList(searchQuery, categoryFilter, startDate, endDate) ==
  /\ last' = [op |-> "ExpenseList", id |-> 0,
              arg |-> [expenses |-> expenses, searchQuery |-> searchQuery,
                       categoryFilter |-> categoryFilter, startDate |-> startDate,
                       endDate |-> endDate],
              ret |-> sortedExpenses(expenses, searchQuery, categoryFilter, startDate, endDate),
              calls |-> <<>>, raised |-> FALSE]
  /\ UNCHANGED <<localStorage, hasWindow, tzOffset, dashVars, now, uuidCount>>
  /\ UNCHANGED homeVars

NextList ==
  \/ \E expense \in ListInputs : ReceiveListed(expense)
  \/ \E searchQuery \in SearchInputs, categoryFilter \in CategoryFilterInputs,
        startDate \in DateFilterInputs, endDate \in DateFilterInputs :
        RenderList(searchQuery, categoryFilter, startDate, endDate)

SpecList == InitList /\ [][NextList]_vars

(***************************************************************************)
(* The dashboard with the export modal (Dashboard, ExportModal).  A call   *)
(* of handleExport runs in three steps: the click, which ends at the await *)
(* of 500 ms; the continuation, which writes the file and sets the timer   *)
(* of 300 ms; and the timer's callback.  The continuation and the callback *)
(* see the values of the render in which the button was clicked.           *)
(***************************************************************************)
envVars == <<localStorage, hasWindow, tzOffset, now, uuidCount>>
modalVars == <<isExportModalOpen, exportModal, exportsPending>>
hubVars == <<isExportHubOpen, exportHub, hubTimers>>

\* the values a render of ExportModal closes over
RenderOf(exps, state) ==
  [expenses |-> exps, format |-> state.format, startDate |-> state.startDate,
   endDate |-> state.endDate, selectedCategories |-> state.selectedCategories,
   filename |-> state.filename]

\* filteredExpenses of a render
FilteredOf(render) ==
  filteredExpenses(render.expenses, render.startDate, render.endDate,
                   render.selectedCategories)

\* a button that stays enabled while an export is in progress
ExportDisabledIgnoresExporting(exps, state) ==
  FilteredOf(RenderOf(exps, state)) = <<>> \/ state.filename = ""

\* the Export button's disabled attribute
ExportDisabled(exps, state) ==
  FilteredOf(RenderOf(exps, state)) = <<>> \/ state.isExporting \/ state.filename = ""

\* ExportModal.generatePDF(data): the rows of the table and the summary;
\* the amount is the number handed to formatCurrency, the description is cut
\* to 27 characters and three dots when it is longer than 30
generatePDF(data, summary) ==
  [summary |-> summary,
   rows |-> [i \in DOMAIN data |->
               [date |-> data[i].date, category |-> data[i].category,
                amount |-> data[i].amount,
                description |-> IF Len(data[i].description) > 30
                                THEN SubSeq(data[i].description, 1, 27) \o <<".", ".", ".">>
                                ELSE data[i].description]]]

\* the file a render's handleExport writes at time t
FileOf(render, t) ==
  LET data == FilteredOf(render)
      summary == exportSummary(data, render.startDate, render.endDate)
  IN [name |-> <<render.filename, render.format>>,
      format |-> render.format,
      content |-> IF render.format = "csv" THEN generateCSV(data)
                  ELSE IF render.format = "json" THEN generateJSON(data, summary, t)
                  ELSE generatePDF(data, summary)]

\* a continuation that reads the state of the modal as it is when it runs
exportContinuationReadsState(render, exps, state, t) == FileOf(RenderOf(exps, state), t)

\* the part of handleExport after the await: it runs in the scope of the
\* render in which Export was clicked, whatever the modal's state is by then
exportContinuation(render, exps, state, t) == FileOf(render, t)

\* the lists of expenses the dashboard is handed
DashboardLists ==
  LET e1 == [id |-> 1, date |-> <<1>>, amount |-> Num(50), category |-> "Food",
             description |-> <<"a">>, createdAt |-> 0, updatedAt |-> 0]
      e2 == [id |-> 2, date |-> <<3>>, amount |-> parseFloat("0.10"), category |-> "Bills",
             description |-> <<"b", ",", "c">>, createdAt |-> 0, updatedAt |-> 0]
  IN {<<>>, <<e1>>, <<e1, e2>>}

ExportFormats == {"csv", "json", "pdf"}
FilenameInputs == {"expenses-export", ""}

\* Dashboard: the Export Data button
OpenExportModal ==
  /\ dashboard = "modal"
  /\ ~isExportModalOpen
  /\ isExportModalOpen' = TRUE
  /\ last' = NoOp
  /\ UNCHANGED <<exportModal, exportsPending>>
  /\ UNCHANGED <<envVars, homeVars, hubVars, dashboard>>

\* ExportModal: the X and the Cancel buttons, onClose
CloseExportModal ==
  /\ dashboard = "modal"
  /\ isExportModalOpen
  /\ isExportModalOpen' = FALSE
  /\ exportsPending' = [i \in DOMAIN exportsPending |->
                          [exportsPending[i] EXCEPT !.closedSince = TRUE]]
  /\ last' = NoOp
  /\ UNCHANGED exportModal
  /\ UNCHANGED <<envVars, homeVars, hubVars, dashboard>>

\* ExportModal: a control of the open modal sets one field of its state
SetModalField(field, value) ==
  /\ dashboard = "modal"
  /\ isExportModalOpen
  /\ exportModal' = [exportModal EXCEPT ![field] = value]
  /\ last' = NoOp
  /\ UNCHANGED <<isExportModalOpen, exportsPending>>
  /\ UNCHANGED <<envVars, homeVars, hubVars, dashboard>>

\* ExportModal.toggleCategory
toggleCategory(selectedCategories, category) ==
  IF category \in selectedCategories THEN selectedCategories \ {category}
  ELSE selectedCategories \cup {category}

\* ExportModal.handleExport, up to the await: the Export button is clicked
ModalExportClick ==
  /\ dashboard = "modal"
  /\ isExportModalOpen
  /\ ~ExportDisabled(expenses, exportModal)
  /\ FilteredOf(RenderOf(expenses, exportModal)) # <<>>
  /\ exportModal' = [exportModal EXCEPT !.isExporting = TRUE]
  /\ exportsPending' = Append(exportsPending,
       [step |-> "await", render |-> RenderOf(expenses, exportModal), closedSince |-> FALSE])
  /\ last' = NoOp
  /\ UNCHANGED isExportModalOpen
  /\ UNCHANGED <<envVars, homeVars, hubVars, dashboard>>

Remove(seq, i) == SubSeq(seq, 1, i - 1) \o SubSeq(seq, i + 1, Len(seq))

\* ExportModal.handleExport after the 500 ms: the file is written and the
\* timer of 300 ms is set, or an exception is caught
ModalExportContinue(i, throws) ==
  /\ dashboard = "modal"
  /\ i \in DOMAIN exportsPending
  /\ exportsPending[i].step = "await"
  /\ IF throws
     THEN /\ exportModal' = [exportModal EXCEPT !.isExporting = FALSE]
          /\ exportsPending' = Remove(exportsPending, i)
          /\ last' = [op |-> "modalExportFailed", id |-> 0, arg |-> exportsPending[i].render,
                      ret |-> NULL, calls |-> <<>>, raised |-> TRUE]
     ELSE /\ exportsPending' = [exportsPending EXCEPT ![i].step = "timeout"]
          /\ last' = [op |-> "modalExport", id |-> 0, arg |-> exportsPending[i].render,
                      ret |-> exportContinuation(exportsPending[i].render, expenses,
                                                 exportModal, now),
                      calls |-> <<>>, raised |-> FALSE]
          /\ UNCHANGED exportModal
  /\ UNCHANGED isExportModalOpen
  /\ UNCHANGED <<envVars, homeVars, hubVars, dashboard>>

\* the callback of the 300 ms timer: setIsExporting(false); onClose()
ModalExportTimeout(i) ==
  /\ dashboard = "modal"
  /\ i \in DOMAIN exportsPending
  /\ exportsPending[i].step = "timeout"
  /\ exportModal' = [exportModal EXCEPT !.isExporting = FALSE]
  /\ isExportModalOpen' = FALSE
  /\ exportsPending' =
       LET rest == Remove(exportsPending, i)
       IN [k \in DOMAIN rest |-> [rest[k] EXCEPT !.closedSince = TRUE]]
  /\ last' = [op |-> "modalExportDone", id |-> 0, arg |-> exportsPending[i].render,
              ret |-> [closedSince |-> exportsPending[i].closedSince,
                       wasOpen |-> isExportModalOpen],
              calls |-> <<>>, raised |-> FALSE]
  /\ UNCHANGED <<envVars, homeVars, hubVars, dashboard>>

\* what the user does in the dashboard with the export modal
NextModal ==
  \/ OpenExportModal
  \/ CloseExportModal
  \/ \E value \in ExportFormats : SetModalField("format", value)
  \/ \E value \in FilterDates : SetModalField("startDate", value)
  \/ \E value \in FilterDates : SetModalField("endDate", value)
  \/ SetModalField("selectedCategories", toggleCategory(exportModal.selectedCategories, "Food"))
  \/ SetModalField("selectedCategories", Categories)
  \/ SetModalField("selectedCategories", {})
  \/ \E value \in FilenameInputs : SetModalField("filename", value)
  \/ ModalExportClick
  \/ \E i \in DOMAIN exportsPending, throws \in BOOLEAN : ModalExportContinue(i, throws)
  \/ \E i \in DOMAIN exportsPending : ModalExportTimeout(i)
(***************************************************************************)
(* The dashboard with the Export Hub (ExportHub).  handleExport awaits a   *)
(* timer of 2000 ms and then sets a timer of 3000 ms that dismisses the    *)
(* notification.                                                           *)
(***************************************************************************)
\* the longest the queue of dismissing timers gets: an export takes 2000 ms
\* and a timer 3000 ms, so two of them can be waiting at a time
MaxDismissTimers == 2

\* cloudProviders: the status of each provider
ProviderStatus ==
  [p \in {"google-sheets", "email", "dropbox", "onedrive", "notion"} |->
     CASE p = "google-sheets" -> "connected"
       [] p = "email" -> "ready"
       [] p = "dropbox" -> "not-connected"
       [] p = "onedrive" -> "not-connected"
       [] p = "notion" -> "connected"]

CloudProviders == DOMAIN ProviderStatus

\* the tabs, templates, addresses and random ids the user and Math.random
\* choose from
TabInputs == {"export", "schedule", "share"}
TemplateInputs == {"monthly-summary", "tax-report"}
EmailInputs == {"a@b.c"}
RandomIds == {"k3x9a"}

\* Dashboard: the Cloud Export Hub button
OpenExportHub ==
  /\ dashboard = "hub"
  /\ ~isExportHubOpen
  /\ isExportHubOpen' = TRUE
  /\ last' = NoOp
  /\ UNCHANGED <<exportHub, hubTimers>>
  /\ UNCHANGED <<envVars, homeVars, modalVars, dashboard>>

\* ExportHub: the X button, onClose
CloseExportHub ==
  /\ dashboard = "hub"
  /\ isExportHubOpen
  /\ isExportHubOpen' = FALSE
  /\ last' = NoOp
  /\ UNCHANGED <<exportHub, hubTimers>>
  /\ UNCHANGED <<envVars, homeVars, modalVars, dashboard>>

\* ExportHub: a control of the open hub sets one field of its state (a tab,
\* a template card, the email address)
SetHubField(field, value) ==
  /\ dashboard = "hub"
  /\ isExportHubOpen
  /\ exportHub' = [exportHub EXCEPT ![field] = value]
  /\ last' = NoOp
  /\ UNCHANGED <<isExportHubOpen, hubTimers>>
  /\ UNCHANGED <<envVars, homeVars, modalVars, dashboard>>

\* a provider button that is enabled whatever the provider's status
SelectProviderAny(provider) == SetHubField("selectedProvider", provider)

\* ExportHub: a provider button; it is disabled for a provider that is not
\* connected
SelectProvider(provider) ==
  /\ ProviderStatus[provider] # "not-connected"
  /\ SetHubField("selectedProvider", provider)

\* the Export to Cloud button's disabled attribute (the template is never
\* empty)
HubExportDisabled(state) == state.selectedProvider = NoProvider \/ state.isProcessing

\* ExportHub.handleExport, up to the await: the Export to Cloud button
HubExportClick ==
  /\ dashboard = "hub"
  /\ isExportHubOpen
  /\ ~HubExportDisabled(exportHub)
  /\ exportHub.selectedProvider # NoProvider
  /\ Len(SelectSeq(hubTimers, LAMBDA timer : timer = "dismiss")) < MaxDismissTimers
  /\ exportHub' = [exportHub EXCEPT !.isProcessing = TRUE]
  /\ hubTimers' = Append(hubTimers, "export")
  /\ last' = [op |-> "hubExport", id |-> 0, arg |-> [expenses |-> expenses], ret |-> NULL,
              calls |-> <<>>, raised |-> FALSE]
  /\ UNCHANGED isExportHubOpen
  /\ UNCHANGED <<envVars, homeVars, modalVars, dashboard>>

\* a continuation that shows the notification and sets no timer
HubExportContinueNoTimer(i) ==
  /\ dashboard = "hub"
  /\ i \in DOMAIN hubTimers
  /\ hubTimers[i] = "export"
  /\ exportHub' = [exportHub EXCEPT !.isProcessing = FALSE, !.showSuccessNotification = TRUE]
  /\ hubTimers' = Remove(hubTimers, i)
  /\ last' = NoOp
  /\ UNCHANGED isExportHubOpen
  /\ UNCHANGED <<envVars, homeVars, modalVars, dashboard>>

\* ExportHub.handleExport after the 2000 ms: processing ends, the
\* notification is shown and the timer of 3000 ms is set
HubExportContinue(i) ==
  /\ dashboard = "hub"
  /\ i \in DOMAIN hubTimers
  /\ hubTimers[i] = "export"
  /\ exportHub' = [exportHub EXCEPT !.isProcessing = FALSE, !.showSuccessNotification = TRUE]
  /\ hubTimers' = Append(Remove(hubTimers, i), "dismiss")
  /\ last' = NoOp
  /\ UNCHANGED isExportHubOpen
  /\ UNCHANGED <<envVars, homeVars, modalVars, dashboard>>

\* the callback of the 3000 ms timer: setShowSuccessNotification(false)
HubDismiss(i) ==
  /\ dashboard = "hub"
  /\ i \in DOMAIN hubTimers
  /\ hubTimers[i] = "dismiss"
  /\ exportHub' = [exportHub EXCEPT !.showSuccessNotification = FALSE]
  /\ hubTimers' = Remove(hubTimers, i)
  /\ last' = NoOp
  /\ UNCHANGED isExportHubOpen
  /\ UNCHANGED <<envVars, homeVars, modalVars, dashboard>>

\* ExportHub.generateShareLink, with the id Math.random gives
GenerateShareLink(randomId) ==
  /\ dashboard = "hub"
  /\ isExportHubOpen
  /\ exportHub' = [exportHub EXCEPT !.shareLink = <<"https://expenses.app/share/", randomId>>,
                                    !.showQRCode = TRUE]
  /\ last' = NoOp
  /\ UNCHANGED <<isExportHubOpen, hubTimers>>
  /\ UNCHANGED <<envVars, homeVars, modalVars, dashboard>>

\* a toggle that also clears the stored collection
ToggleScheduleClears(id) ==
  /\ dashboard = "hub"
  /\ isExportHubOpen
  /\ exportHub' = [exportHub EXCEPT !.scheduledExports[id] = ~exportHub.scheduledExports[id]]
  /\ localStorage' = clearAllExpenses(localStorage, hasWindow, FALSE).ls
  /\ last' = NoOp
  /\ UNCHANGED <<isExportHubOpen, hubTimers>>
  /\ UNCHANGED <<hasWindow, tzOffset, now, uuidCount, homeVars, modalVars, dashboard>>

\* ExportHub.toggleSchedule
ToggleSchedule(id) ==
  /\ dashboard = "hub"
  /\ isExportHubOpen
  /\ exportHub' = [exportHub EXCEPT !.scheduledExports[id] = ~exportHub.scheduledExports[id]]
  /\ last' = NoOp
  /\ UNCHANGED <<isExportHubOpen, hubTimers>>
  /\ UNCHANGED <<envVars, homeVars, modalVars, dashboard>>

\* what the user and the timers do in the dashboard with the Export Hub
NextHub ==
  \/ OpenExportHub
  \/ CloseExportHub
  \/ \E value \in TabInputs : SetHubField("activeTab", value)
  \/ \E value \in TemplateInputs : SetHubField("selectedTemplate", value)
  \/ \E value \in EmailInputs : SetHubField("emailAddress", value)
  \/ \E provider \in CloudProviders : SelectProvider(provider)
  \/ HubExportClick
  \/ \E i \in DOMAIN hubTimers : HubExportContinue(i)
  \/ \E i \in DOMAIN hubTimers : HubDismiss(i)
  \/ \E randomId \in RandomIds : GenerateShareLink(randomId)
  \/ \E id \in ScheduleIds : ToggleSchedule(id)

(***************************************************************************)
(* The three dashboards.  A build has one of them; the page is loaded and  *)
(* hands the dashboard its expenses.                                       *)
(***************************************************************************)
Dashboards == {"simple", "modal", "hub"}

InitDashboards ==
  /\ localStorage = [k \in StorageKeys |-> IF k = STORAGE_KEY THEN NoItem ELSE OtherText]
  /\ hasWindow = TRUE
  /\ tzOffset = 0
  /\ now = 1
  /\ uuidCount = 0
  /\ last = NoOp
  /\ expenses \in DashboardLists
  /\ isModalOpen = FALSE
  /\ editingExpense = NULL
  /\ isLoaded = TRUE
  /\ trace = <<>>
  /\ dashboard \in Dashboards
  /\ InitDashboardState

\* the Export button of the simple dashboard
SimpleExportClick ==
  /\ dashboard = "simple"
  /\ HandleExportCSV

NextDashboards ==
  \/ HandleExport
  \/ SimpleExportClick
  \/ NextModal
  \/ NextHub

SpecDashboards == InitDashboards /\ [][NextDashboards]_vars

\* what a pending export's continuation, and then its timer callback, do to
\* the modal's queue of pending exports
ModalContinuationRuns(i) ==
  /\ exportsPending[i].step = "await"
  /\ exportsPending' \in {Remove(exportsPending, i),
                          [exportsPending EXCEPT ![i].step = "timeout"]}

ModalTimeoutRuns(i) ==
  /\ exportsPending[i].step = "timeout"
  /\ exportsPending' = Remove(exportsPending, i)

\* the timers fire: a timer that is set is not left waiting for ever
ModalTimersFire ==
  /\ WF_exportsPending(\E i \in DOMAIN exportsPending : ModalContinuationRuns(i))
  /\ WF_exportsPending(\E i \in DOMAIN exportsPending : ModalTimeoutRuns(i))

HubTimersFire ==
  /\ WF_hubTimers(\E i \in DOMAIN hubTimers : HubExportContinue(i))
  /\ WF_hubTimers(\E i \in DOMAIN hubTimers : HubDismiss(i))

\* the dashboard with the export modal, and the one with the Export Hub,
\* with their timers
InitModalDashboard ==
  /\ InitDashboards
  /\ dashboard = "modal"

SpecModalLive == InitModalDashboard /\ [][NextModal]_vars /\ ModalTimersFire

InitHubDashboard ==
  /\ InitDashboards
  /\ dashboard = "hub"

SpecHubLive == InitHubDashboard /\ [][NextHub]_vars /\ HubTimersFire

(***************************************************************************)
(* Properties of storageUtils, checked under SpecStore.                    *)
(***************************************************************************)
DataFields == {"date", "amount", "category", "description"}

\* the operation made its setItem call and the call did not throw
WriteTookEffect(l) == l.calls # <<>> /\ \A i \in DOMAIN l.calls : ~l.calls[i].threw

IdSeq(exps) == [i \in DOMAIN exps |-> exps[i].id]

\* exps without the records whose id is id, the others in their order
WithoutId(exps, id) == SelectSeq(exps, LAMBDA e : e.id # id)

\* C1: no two records of the persisted collection have the same id, and an
\* updateExpense call leaves the ids of the collection as they were.
C1_UniqueIds ==
  /\ [](\A i, j \in DOMAIN Persisted : i # j => Persisted[i].id # Persisted[j].id)
  /\ [][last'.op = "update" => IdSeq(Persisted') = IdSeq(Persisted)]_vars

C1_Witness ==
  /\ last.op = "add"
  /\ Len(Persisted) = 2
  /\ Persisted[2] = last.ret

\* the record r carries the data fields of the argument a
CarriesFields(r, a) == \A f \in DataFields : r[f] = a[f]

\* C6 as stated, for calls made in a browser: every addExpense call appends
\* exactly one record, carrying the given fields, a new id and equal
\* timestamps, after the old records.
C6_Original ==
  [][(last'.op = "add" /\ hasWindow) =>
       /\ Len(Persisted') = Len(Persisted) + 1
       /\ SubSeq(Persisted', 1, Len(Persisted)) = Persisted
       /\ LET r == Persisted'[Len(Persisted')] IN
          /\ CarriesFields(r, last'.arg)
          /\ r.id \notin Ids(Persisted)
          /\ r.createdAt = r.updatedAt]_vars

\* C6 amended: the record addExpense returns carries the given fields, an id
\* not in the collection and createdAt = updatedAt; when the setItem call is
\* made and does not throw, the collection is the old one with that record
\* appended; otherwise the storage area is left as it was.
C6_Amended ==
  [][last'.op = "add" =>
       LET r == last'.ret IN
       /\ CarriesFields(r, last'.arg)
       /\ DOMAIN r = DataFields \cup {"id", "createdAt", "updatedAt"}
       /\ r.id \notin Ids(Persisted)
       /\ r.createdAt = r.updatedAt
       /\ IF WriteTookEffect(last')
          THEN /\ Len(Persisted') = Len(Persisted) + 1
               /\ SubSeq(Persisted', 1, Len(Persisted)) = Persisted
               /\ Persisted'[Len(Persisted')] = r
          ELSE localStorage' = localStorage]_vars

C6_Witness ==
  /\ last.op = "add"
  /\ WriteTookEffect(last)
  /\ Len(Persisted) >= 2
  /\ Persisted[Len(Persisted)].id = last.ret.id

\* the collection after is the collection before with the record at index i
\* updated by u at time t, and nothing else changed
UpdatedAt(before, after, i, u, t) ==
  /\ Len(after) = Len(before)
  /\ \A j \in DOMAIN before : j # i => after[j] = before[j]
  /\ after[i].id = before[i].id
  /\ after[i].createdAt = before[i].createdAt
  /\ after[i].updatedAt = t
  /\ \A f \in DataFields : after[i][f] = IF f \in DOMAIN u THEN u[f] ELSE before[i][f]

\* C7 as stated: updateExpense on a present id replaces the supplied fields
\* and sets updatedAt, changing nothing else; on an absent id it returns
\* null and changes nothing.
C7_Original ==
  [][last'.op = "update" =>
       IF last'.id \in Ids(Persisted)
       THEN UpdatedAt(Persisted, Persisted', FindIndex(Persisted, last'.id), last'.arg, now)
       ELSE last'.ret = NULL /\ localStorage' = localStorage]_vars

\* C7 amended: on a present id, when the setItem call does not throw, the
\* record is updated in place and nothing else changes; when it throws the
\* storage area is left as it was; on an absent id null is returned and the
\* storage area is left as it was.
C7_Amended ==
  [][last'.op = "update" =>
       IF last'.id \in Ids(Persisted)
       THEN /\ last'.ret # NULL
            /\ last'.ret.id = last'.id
            /\ IF WriteTookEffect(last')
               THEN /\ UpdatedAt(Persisted, Persisted', FindIndex(Persisted, last'.id),
                                 last'.arg, now)
                    /\ Persisted'[FindIndex(Persisted, last'.id)] = last'.ret
               ELSE localStorage' = localStorage
       ELSE last'.ret = NULL /\ localStorage' = localStorage]_vars

C7_Witness ==
  /\ last.op = "update"
  /\ last.ret # NULL
  /\ WriteTookEffect(last)
  /\ DOMAIN last.arg = {"amount"}
  /\ Len(Persisted) >= 2
  /\ Persisted[1] = last.ret

\* C8 as stated: deleteExpense removes exactly the records with the id,
\* keeps the others in order, and returns true exactly when it removed one.
C8_Original ==
  [][last'.op = "delete" =>
       /\ Persisted' = WithoutId(Persisted, last'.id)
       /\ last'.ret = (Len(Persisted') < Len(Persisted))]_vars

\* the operation reported success and no setItem call of it threw
Succeeded(l) ==
  /\ hasWindow
  /\ \A i \in DOMAIN l.calls : ~l.calls[i].threw
  /\ CASE l.op = "add" -> TRUE
       [] l.op = "update" -> l.ret # NULL
       [] l.op = "delete" -> l.ret
       [] OTHER -> FALSE

\* C9: a successful add, update or delete makes exactly one setItem call,
\* on the fixed key, whose text is the whole resulting collection; an update
\* or delete of an absent id makes no setItem call.
C9_OneFullWrite ==
  [][last'.op \in {"add", "update", "delete"} =>
       /\ Succeeded(last') =>
            /\ Len(last'.calls) = 1
            /\ last'.calls[1].key = STORAGE_KEY
            /\ last'.calls[1].value = JSONstringify(Persisted')
            /\ localStorage' = [localStorage EXCEPT ![STORAGE_KEY] = last'.calls[1].value]
            /\ CASE last'.op = "add" -> Len(Persisted') = Len(Persisted) + 1
                 [] last'.op = "update" -> IdSeq(Persisted') = IdSeq(Persisted)
                 [] last'.op = "delete" -> Persisted' = WithoutId(Persisted, last'.id)
       /\ (last'.op \in {"update", "delete"} /\ last'.id \notin Ids(Persisted)) =>
            /\ last'.calls = <<>>
            /\ localStorage' = localStorage]_vars

C9_Witness ==
  /\ last.op = "delete"
  /\ last.ret
  /\ Succeeded(last)
  /\ Len(Persisted) = 1

\* C10: getExpenses lets no error out and leaves the storage area as it is;
\* without the key, with text that does not parse, or without a window it
\* returns the empty list.
C10_GetExpensesSafe ==
  [][last'.op = "get" =>
       /\ ~last'.raised
       /\ localStorage' = localStorage
       /\ (\/ ~hasWindow
           \/ localStorage[STORAGE_KEY] = NoItem
           \/ JSONparseThrows(localStorage[STORAGE_KEY])) => last'.ret = <<>>]_vars

C10_Witness ==
  /\ last.op = "get"
  /\ hasWindow
  /\ localStorage[STORAGE_KEY] = Garbage
  /\ last.ret = <<>>

(***************************************************************************)
(* Properties of the Home page and the form, checked under Spec.           *)
(***************************************************************************)
HandlerOps == {"handleAdd", "handleEdit", "handleDelete"}

\* C2 as stated: once the page has loaded, the in-memory list is the
\* persisted collection, record for record and in the same order.
C2_InSync == isLoaded => expenses = Persisted

\* C3 as stated: an add, edit or delete whose setItem call throws leaves the
\* persisted collection and the in-memory list as they were.
C3_FailedWriteNoEffect ==
  [][(last'.op \in HandlerOps /\ \E i \in DOMAIN last'.calls : last'.calls[i].threw) =>
       (Persisted' = Persisted /\ expenses' = expenses)]_vars

\* what the data model asks of a record at time t
ValidExpense(e, t) ==
  /\ NumGt(e.amount, 0)
  /\ NumLe(e.amount, MaxAmount)
  /\ e.category \in Categories
  /\ trim(e.description) # <<>>
  /\ Len(e.description) <= MaxDescriptionLength
  /\ e.date # <<>>
  /\ ParseDate(e.date) <= t

\* C4: every record of the persisted collection, all of them written through
\* the add form or the edit form, has 0 < amount <= 1,000,000, one of the
\* six categories, a description that is not blank and has at most 200
\* characters, and a date not after the current date.
C4_PersistedValid == \A i \in DOMAIN Persisted : ValidExpense(Persisted[i], now)

C4_Witness ==
  /\ last.op = "handleEdit"
  /\ WriteTookEffect(last)
  /\ \E i \in DOMAIN Persisted :
       /\ Len(Persisted[i].description) = MaxDescriptionLength
       /\ Persisted[i].amount = Num(MaxAmount)
       /\ ParseDate(Persisted[i].date) = now

StorageSteps == {"addExpense", "updateExpense", "setItem"}
StorageReturns == {"addExpense:return", "updateExpense:return"}

\* C5: in every submission validation comes first; the storage is called,
\* and written, only when validation found no error; the in-memory list is
\* set only after the storage call has returned; and a submission with
\* validation errors changes neither the storage area nor the list.
C5_SubmitOrder ==
  /\ [](trace # <<>> =>
          /\ trace[1] = "validateExpenseForm"
          /\ \A i \in DOMAIN trace : trace[i] = "validateExpenseForm" => i = 1
          /\ \A i \in DOMAIN trace : trace[i] \in StorageSteps => (i > 1 /\ ~last.ret)
          /\ \A i \in DOMAIN trace :
               trace[i] = "setExpenses" => \E j \in 1..(i - 1) : trace[j] \in StorageReturns)
  /\ [][(last'.op \in {"invalid", "handleAdd", "handleEdit"} /\ last'.ret) =>
          (localStorage' = localStorage /\ expenses' = expenses /\ last'.calls = <<>>)]_vars

C5_Witness ==
  /\ last.op = "handleEdit"
  /\ ~last.ret
  /\ \E i \in DOMAIN trace : trace[i] = "setItem"
  /\ \E i \in DOMAIN trace : trace[i] = "setExpenses"
  /\ expenses # <<>>

(***************************************************************************)
(* Properties of calculateSpendingSummary, checked under SpecCalc.         *)
(***************************************************************************)
Summarised == last.op = "calculateSpendingSummary"

\* the amounts of the first n expenses, added up in list order
RECURSIVE SumTo(_, _)
SumTo(exps, n) == IF n = 0 THEN Num(0) ELSE NumAdd(SumTo(exps, n - 1), exps[n].amount)

SumOf(exps) == SumTo(exps, Len(exps))

InCategory(exps, c) == SelectSeq(exps, LAMBDA e : e.category = c)

\* the first n buckets, in the order of the categories, added up
RECURSIVE BucketsTo(_, _)
BucketsTo(breakdown, n) ==
  IF n = 0 THEN Num(0) ELSE NumAdd(BucketsTo(breakdown, n - 1), breakdown[CategoryOrder[n]])

BucketSum(breakdown) == BucketsTo(breakdown, Len(CategoryOrder))

IsWhole(x) == ~x.nan /\ x.frac = Whole

\* total, six keys, every bucket the sum of its category, every figure 0
\* for the empty list
C11_Figures ==
  Summarised =>
    /\ last.ret.totalSpending = SumOf(last.arg)
    /\ DOMAIN last.ret.categoryBreakdown = Categories
    /\ \A c \in Categories : last.ret.categoryBreakdown[c] = SumOf(InCategory(last.arg, c))
    /\ last.arg = <<>> =>
         /\ last.ret.totalSpending = Num(0)
         /\ last.ret.monthlySpending = Num(0)
         /\ \A c \in Categories : last.ret.categoryBreakdown[c] = Num(0)

\* 2^-40, about 10^-12
Tolerance == [nan |-> FALSE, val |-> 0, frac |-> <<0, 1, 0>>]

Within(x, y, eps) == NumGtNum(NumAdd(x, eps), y) /\ NumGtNum(NumAdd(y, eps), x)

\* C11 as stated: totalSpending is the sum of all amounts, the breakdown has
\* exactly the six categories as keys, each bucket is the sum of the amounts
\* of its category, the six buckets add up to totalSpending, and for the
\* empty list every figure is 0.
C11_Original ==
  /\ C11_Figures
  /\ Summarised => BucketSum(last.ret.categoryBreakdown) = last.ret.totalSpending

\* C11, amended: as stated, except that the six buckets add up to
\* totalSpending exactly when every amount is a whole number, and otherwise
\* to within the rounding of binary64 addition.
C11_Amended ==
  /\ C11_Figures
  /\ Summarised =>
       /\ (\A i \in DOMAIN last.arg : IsWhole(last.arg[i].amount)) =>
            BucketSum(last.ret.categoryBreakdown) = last.ret.totalSpending
       /\ Within(BucketSum(last.ret.categoryBreakdown), last.ret.totalSpending, Tolerance)

\* a summary of three expenses in two categories, two of them in the same
\* one, all with whole amounts greater than 0
C11_Witness ==
  /\ Summarised
  /\ Len(last.arg) = 3
  /\ \A i \in DOMAIN last.arg : IsWhole(last.arg[i].amount) /\ NumGt(last.arg[i].amount, 0)
  /\ last.arg[1].category # last.arg[2].category
  /\ last.arg[1].category = last.arg[3].category

\* the order of the categories the tie-break goes by
ClaimedOrder == <<"Food", "Transportation", "Entertainment", "Shopping", "Bills", "Other">>

\* C12: topCategory is null exactly when no bucket is greater than 0;
\* otherwise its amount is the largest bucket value and its category is the
\* first one, in the order Food, Transportation, Entertainment, Shopping,
\* Bills, Other, whose bucket has that value.
C12_TopCategory ==
  Summarised =>
    LET b == last.ret.categoryBreakdown
        top == last.ret.topCategory
    IN /\ top = NULL <=> \A c \in Categories : ~NumGt(b[c], 0)
       /\ top # NULL =>
            /\ \A c \in Categories : ~NumGtNum(b[c], top.amount)
            /\ \E i \in DOMAIN ClaimedOrder :
                 /\ ClaimedOrder[i] = top.category
                 /\ b[ClaimedOrder[i]] = top.amount
                 /\ \A j \in 1..(i - 1) : b[ClaimedOrder[j]] # top.amount

\* a summary in which two buckets share the largest value
C12_Witness ==
  /\ Summarised
  /\ last.ret.topCategory # NULL
  /\ \E c \in Categories :
       /\ c # last.ret.topCategory.category
       /\ last.ret.categoryBreakdown[c] = last.ret.topCategory.amount

\* the date string lies in the calendar month of the local day t
InMonthOf(date, t) == ParseDate(date) \div MonthLength = t \div MonthLength

InCurrentMonth(exps, t) == SelectSeq(exps, LAMBDA e : InMonthOf(e.date, t))

\* C13: monthlySpending is the sum of the amounts of exactly those expenses
\* whose date lies in the current calendar month; it never exceeds
\* totalSpending when all amounts are positive, and equals totalSpending
\* when every expense is dated in the current month.
C13_Original ==
  Summarised =>
    /\ last.ret.monthlySpending = SumOf(InCurrentMonth(last.arg, now))
    /\ (\A i \in DOMAIN last.arg : NumGt(last.arg[i].amount, 0)) =>
         ~NumGtNum(last.ret.monthlySpending, last.ret.totalSpending)
    /\ (\A i \in DOMAIN last.arg : InMonthOf(last.arg[i].date, now)) =>
         last.ret.monthlySpending = last.ret.totalSpending

\* C14: an expense dated the first or the last day of the current month is
\* counted in monthlySpending, in every time zone: a list of such expenses
\* has monthlySpending equal to totalSpending.
C14_Original ==
  Summarised =>
    ((\A i \in DOMAIN last.arg :
        /\ InMonthOf(last.arg[i].date, now)
        /\ \/ ParseDate(last.arg[i].date) % MonthLength = 0
           \/ ParseDate(last.arg[i].date) % MonthLength = MonthLength - 1)
     => last.ret.monthlySpending = last.ret.totalSpending)

(***************************************************************************)
(* Properties of validateExpenseForm, checked under SpecValidate.          *)
(***************************************************************************)
Validated == last.op = "validateExpenseForm"

\* C15: "Date is required" for an empty date, "Date cannot be in the future"
\* for a date strictly after the current date, and no date error for
\* today's date or any past date.
C15_DateRule ==
  Validated =>
    /\ last.arg.date = <<>> => last.ret.date = "Date is required"
    /\ (last.arg.date # <<>> /\ last.arg.date[1] > now) =>
         last.ret.date = "Date cannot be in the future"
    /\ (last.arg.date # <<>> /\ last.arg.date[1] <= now) => last.ret.date = NoError

\* today's date was validated and accepted
C15_Witness ==
  /\ Validated
  /\ last.arg.date = <<now>>
  /\ last.ret.date = NoError

\* C16: "Amount is required" for an empty amount, "Amount must be a positive
\* number" for an amount that is not a number or is <= 0, "Amount seems
\* unreasonably large" for an amount > 1,000,000, and no amount error for
\* every amount in (0, 1,000,000], including exactly 1,000,000.
C16_AmountRule ==
  Validated =>
    LET amount == last.arg.amount
        x == parseFloat(amount)
    IN /\ amount = "" => last.ret.amount = "Amount is required"
       /\ (amount # "" /\ (isNaN(x) \/ NumLe(x, 0))) =>
            last.ret.amount = "Amount must be a positive number"
       /\ (amount # "" /\ NumGt(x, 1000000)) =>
            last.ret.amount = "Amount seems unreasonably large"
       /\ (amount # "" /\ NumGt(x, 0) /\ NumLe(x, 1000000)) => last.ret.amount = NoError

\* exactly 1,000,000 was validated and accepted
C16_Witness ==
  /\ Validated
  /\ parseFloat(last.arg.amount) = Num(1000000)
  /\ last.ret.amount = NoError

Blank(str) == \A i \in DOMAIN str : str[i] = " "

\* C17: "Description is required" for an empty or whitespace-only
\* description, "Description must be less than 200 characters" for one
\* longer than 200 characters, and no description error for a non-blank
\* description of 1 to 200 characters, including exactly 200.
C17_DescriptionRule ==
  Validated =>
    LET description == last.arg.description
    IN /\ Blank(description) => last.ret.description = "Description is required"
       /\ (~Blank(description) /\ Len(description) > 200) =>
            last.ret.description = "Description must be less than 200 characters"
       /\ (~Blank(description) /\ Len(description) >= 1 /\ Len(description) <= 200) =>
            last.ret.description = NoError

\* a description of exactly 200 characters was validated and accepted
C17_Witness ==
  /\ Validated
  /\ Len(last.arg.description) = 200
  /\ ~Blank(last.arg.description)
  /\ last.ret.description = NoError


(***************************************************************************)
(* Properties of the exports, checked under SpecExport.                    *)
(***************************************************************************)
ExportedCSV ==
  /\ last.op \in {"exportToCSV", "handleExportCSV", "csv"}
  /\ last.ret # NULL

ExportedJSON == last.op = "json"

\* an RFC 4180 reader: a line break or a comma separates only outside
\* quotes, that is after an even number of quote characters
QuotesBefore(text, i) == Cardinality({j \in 1..(i - 1) : text[j] = Quote})

Separators(text, sep) ==
  {i \in DOMAIN text : text[i] = sep /\ QuotesBefore(text, i) % 2 = 0}

\* the k-th smallest member of a set of positions
Nth(S, k) == CHOOSE i \in S : Cardinality({j \in S : j < i}) = k - 1

\* the pieces of the text between the separators
Pieces(text, sep) ==
  LET S == Separators(text, sep)
      n == Cardinality(S)
  IN [k \in 1..(n + 1) |->
        SubSeq(text, IF k = 1 THEN 1 ELSE Nth(S, k - 1) + 1,
                     IF k = n + 1 THEN Len(text) ELSE Nth(S, k) - 1)]

CR == "\r"

\* a record ends at LF or at CR LF
DropCR(record) ==
  IF record # <<>> /\ record[Len(record)] = CR /\ QuotesBefore(record, Len(record)) % 2 = 0
  THEN SubSeq(record, 1, Len(record) - 1)
  ELSE record

ReadRecords(text) == LET lines == Pieces(text, LF) IN [k \in DOMAIN lines |-> DropCR(lines[k])]

Malformed == <<"malformed">>

\* the number of quote characters in a row that end at position i
QuoteRun(text, i) ==
  LET before == {j \in 1..i : text[j] # Quote}
  IN i - (IF before = {} THEN 0 ELSE CHOOSE j \in before : \A m \in before : m <= j)

\* the value of a field: a quoted field loses its enclosing quotes and every
\* pair of quotes inside it stands for one; an unquoted field holds no quote
ReadField(field) ==
  IF Len(field) >= 2 /\ field[1] = Quote /\ field[Len(field)] = Quote
  THEN LET inner == SubSeq(field, 2, Len(field) - 1)
           odd == {i \in DOMAIN inner :
                     /\ inner[i] = Quote
                     /\ i = Len(inner) \/ inner[i + 1] # Quote
                     /\ QuoteRun(inner, i) % 2 = 1}
           keep == {i \in DOMAIN inner : inner[i] = Quote => QuoteRun(inner, i) % 2 = 1}
       IN IF odd # {} THEN Malformed
          ELSE [k \in 1..Cardinality(keep) |-> inner[Nth(keep, k)]]
  ELSE IF \E i \in DOMAIN field : field[i] = Quote THEN Malformed
  ELSE field

ReadFields(record) ==
  LET fields == Pieces(record, Comma) IN [k \in DOMAIN fields |-> ReadField(fields[k])]

\* the text up to the first line break
FirstLine(text) ==
  LET breaks == {i \in DOMAIN text : text[i] = LF}
  IN IF breaks = {} THEN text ELSE SubSeq(text, 1, Nth(breaks, 1) - 1)

ClaimedHeader == Join(<<DateWord, CategoryWord, AmountWord, DescriptionWord>>, <<Comma>>)

\* C18: every CSV export (the header's Export CSV button, the simple
\* dashboard's export and the export modal) produces text whose first line
\* is exactly Date,Category,Amount,Description, followed by exactly one
\* record per exported expense, in the order of the input list.
C18_Original ==
  ExportedCSV =>
    LET records == ReadRecords(last.ret)
    IN /\ FirstLine(last.ret) = ClaimedHeader
       /\ Len(records) = 1 + Len(last.arg)
       /\ \A i \in DOMAIN last.arg :
            LET fields == ReadFields(records[i + 1])
            IN /\ Len(fields) >= 2
               /\ fields[2] = CategoryChars(last.arg[i].category)
               /\ fields[Len(fields)] = last.arg[i].description

\* C19: for every description, with double quotes, commas or line breaks in
\* it or not, the description field the CSV export writes reads back as
\* the description, and every exported record reads as exactly four fields.
C19_RoundTrip ==
  ExportedCSV =>
    LET records == ReadRecords(last.ret)
    IN /\ \A k \in DOMAIN records : Len(ReadFields(records[k])) = 4
       /\ \A i \in DOMAIN last.arg :
            /\ i + 1 \in DOMAIN records
            /\ ReadFields(records[i + 1])[4] = last.arg[i].description

\* a CSV export of two expenses, the description of one of them with a
\* double quote, a comma or a line break in it
C19_Witness ==
  /\ ExportedCSV
  /\ Len(last.arg) = 2
  /\ \E i \in DOMAIN last.arg : \E j \in DOMAIN last.arg[i].description :
       last.arg[i].description[j] \in {Quote, Comma, LF}

\* C20: the JSON export of a filtered list holds an expenses array with one
\* entry for each exported expense, in order, each entry with exactly date,
\* category, amount and description, and a summary whose count is the
\* number of entries and whose total is the sum of their amounts.
C20_JSON ==
  ExportedJSON =>
    LET doc == JSONparse(last.ret)
    IN /\ Len(doc.expenses) = Len(last.arg)
       /\ \A i \in DOMAIN last.arg :
            /\ DOMAIN doc.expenses[i] = {"date", "category", "amount", "description"}
            /\ doc.expenses[i].date = last.arg[i].date
            /\ doc.expenses[i].category = last.arg[i].category
            /\ doc.expenses[i].amount = last.arg[i].amount
            /\ doc.expenses[i].description = last.arg[i].description
       /\ doc.summary.count = Len(doc.expenses)
       /\ doc.summary.total = SumOf(doc.expenses)

\* a JSON export of two expenses with different amounts, one of them not a
\* whole number
C20_Witness ==
  /\ ExportedJSON
  /\ Len(last.arg) = 2
  /\ last.arg[1].amount # last.arg[2].amount
  /\ \E i \in DOMAIN last.arg : ~IsWhole(last.arg[i].amount)

(***************************************************************************)
(* Properties of the list view and the add/edit modal, checked under Spec. *)
(***************************************************************************)
DeleteClicked(l) == l.op \in {"handleDelete", "deleteDeclined"}

\* C23: an expense is deleted from the list view only after the user
\* accepts the confirmation dialog; when the user declines, the delete
\* handler is not called and the in-memory list and the persisted
\* collection are unchanged.
C23_ConfirmedDelete ==
  [][/\ (isLoaded /\ isLoaded' /\ Ids(expenses) \ Ids(expenses') # {}) =>
          (DeleteClicked(last') /\ last'.arg.accepted)
     /\ (Ids(Persisted) \ Ids(Persisted') # {}) =>
          (DeleteClicked(last') /\ last'.arg.accepted)
     /\ (DeleteClicked(last') /\ ~last'.arg.accepted) =>
          /\ last'.op = "deleteDeclined"
          /\ last'.calls = <<>>
          /\ expenses' = expenses
          /\ localStorage' = localStorage]_vars

\* the user has declined to delete a listed expense that is persisted
C23_Witness ==
  /\ last.op = "deleteDeclined"
  /\ last.id \in Ids(expenses)
  /\ last.id \in Ids(Persisted)

\* C30: on the Home page, whenever the add/edit modal is closed no expense
\* is marked as being edited.
C30_ClosedModalNotEditing == ~isModalOpen => editingExpense = NULL

\* the modal has been closed by the submission of an edit
C30_Witness ==
  /\ last.op = "handleEdit"
  /\ last.id # 0
  /\ ~isModalOpen

(***************************************************************************)
(* Properties of the list view's filters, checked under SpecList.          *)
(***************************************************************************)
Listed == last.op = "ExpenseList"

\* the description contains the search text, ignoring case
ContainsIgnoringCase(description, search) ==
  \E k \in 0..(Len(description) - Len(search)) :
    \A j \in 1..Len(search) : LowerChar(description[k + j]) = LowerChar(search[j])

\* the expense satisfies all the filters f at once
SatisfiesFilters(expense, f) ==
  /\ ContainsIgnoringCase(expense.description, f.searchQuery)
  /\ f.categoryFilter # "All" => expense.category = f.categoryFilter
  /\ f.startDate # <<>> => ParseDate(expense.date) >= ParseDate(f.startDate)
  /\ f.endDate # <<>> => ParseDate(expense.date) <= ParseDate(f.endDate)

NoFilter(f) ==
  f.searchQuery = <<>> /\ f.categoryFilter = "All" /\ f.startDate = <<>> /\ f.endDate = <<>>

\* C24: the list view shows exactly the expenses that satisfy all active
\* filters at once, each of them once, ordered by date from newest to
\* oldest; with no filter set it shows every expense.
C24_FilteredAndSorted ==
  Listed =>
    LET f == last.arg
        shown == last.ret
    IN /\ \A i \in DOMAIN shown : \E j \in DOMAIN f.expenses : shown[i] = f.expenses[j]
       /\ \A i, j \in DOMAIN shown : i # j => shown[i].id # shown[j].id
       /\ Ids(shown) = {f.expenses[j].id : j \in {n \in DOMAIN f.expenses :
                                                   SatisfiesFilters(f.expenses[n], f)}}
       /\ \A i, j \in DOMAIN shown :
            i < j => ParseDate(shown[i].date) >= ParseDate(shown[j].date)
       /\ NoFilter(f) => Len(shown) = Len(f.expenses)

\* the list view shows two expenses of different dates, the older of which
\* comes first in the collection, and leaves out a third
C24_Witness ==
  /\ Listed
  /\ Len(last.arg.expenses) = 3
  /\ Len(last.ret) = 2
  /\ last.arg.searchQuery # <<>>
  /\ last.ret[1].id > last.ret[2].id
  /\ ParseDate(last.ret[1].date) > ParseDate(last.ret[2].date)

(***************************************************************************)
(* Properties of the dashboards, checked under SpecDashboards and, for     *)
(* what eventually happens, under SpecModalLive and SpecHubLive.           *)
(***************************************************************************)
\* C21: no export variant carries out an export while the expense
\* collection is empty: the Export CSV button and the simple dashboard
\* export are disabled or return without producing a file, the export
\* modal's Export button is disabled, and the Export Hub does not start a
\* cloud export.
C21_Original ==
  /\ last.op \in {"exportToCSV", "handleExportCSV"} => (last.arg # <<>> \/ last.ret = NULL)
  /\ \A i \in DOMAIN exportsPending : exportsPending[i].render.expenses # <<>>
  /\ expenses = <<>> => ExportDisabled(expenses, exportModal)
  /\ last.op = "hubExport" => last.arg.expenses # <<>>
  /\ expenses = <<>> => ~exportHub.isProcessing

HubChanged ==
  \/ exportHub' # exportHub
  \/ isExportHubOpen' # isExportHubOpen
  \/ hubTimers' # hubTimers

\* C22: no Export Hub action (selecting a template or a destination,
\* exporting to cloud, generating a share link, toggling a schedule,
\* switching tabs) changes the expense collection or the persisted storage.
C22_HubFrame ==
  [][HubChanged => (expenses' = expenses /\ localStorage' = localStorage
                    /\ Persisted' = Persisted)]_vars

\* the hub has exported a collection that is not empty, made a share link
\* and switched a schedule off, on another tab and with another template
C22_Witness ==
  /\ expenses # <<>>
  /\ exportHub.showSuccessNotification
  /\ exportHub.showQRCode
  /\ ~exportHub.scheduledExports["1"]
  /\ exportHub.activeTab # InitExportHub.activeTab
  /\ exportHub.selectedTemplate # InitExportHub.selectedTemplate

\* the records of a written file, field by field
WrittenRecords(file) ==
  IF file.format = "csv"
  THEN LET records == ReadRecords(file.content)
       IN [k \in 1..(Len(records) - 1) |->
             LET fields == ReadFields(records[k + 1])
             IN <<fields[1], fields[2], fields[4]>>]
  ELSE IF file.format = "json"
  THEN LET entries == JSONparse(file.content).expenses
       IN [k \in DOMAIN entries |->
             <<DateChars(entries[k].date), CategoryChars(entries[k].category),
               entries[k].description>>]
  ELSE [k \in DOMAIN file.content.rows |->
          <<DateChars(file.content.rows[k].date), CategoryChars(file.content.rows[k].category),
            file.content.rows[k].description>>]

\* the expenses of a render whose date lies within its bounds, each bound
\* optional, and whose category is selected
Chosen(render) ==
  SelectSeq(render.expenses, LAMBDA e :
    /\ render.startDate # <<>> => ParseDate(e.date) >= ParseDate(render.startDate)
    /\ render.endDate # <<>> => ParseDate(e.date) <= ParseDate(render.endDate)
    /\ e.category \in render.selectedCategories)

\* C25: the records written by an export-modal export are exactly the
\* expenses whose date lies within the chosen start and end dates and whose
\* category is selected, with the filters, the format and the filename as
\* they were when Export was clicked, whatever was changed while the export
\* was pending.
C25_WrittenAsClicked ==
  last.op = "modalExport" =>
    LET clicked == last.arg
        chosen == Chosen(clicked)
    IN /\ last.ret.format = clicked.format
       /\ last.ret.name = <<clicked.filename, clicked.format>>
       /\ WrittenRecords(last.ret) =
            [k \in DOMAIN chosen |->
               <<DateChars(chosen[k].date), CategoryChars(chosen[k].category),
                 chosen[k].description>>]

\* a file written after the format, a filter and the filename were changed
\* while the export was pending, the filter leaving one of two expenses out
C25_Witness ==
  /\ last.op = "modalExport"
  /\ exportModal.format # last.arg.format
  /\ exportModal.startDate # last.arg.startDate
  /\ exportModal.filename # last.arg.filename
  /\ Len(last.arg.expenses) = 2
  /\ Len(Chosen(last.arg)) = 1

C29_Original ==
  (last.op = "modalExportDone" /\ last.ret.closedSince) => ~last.ret.wasOpen

====
